---- MODULE Spec2Model ----
(***************************************************************************)
(* easy-add: fetch an archive over HTTP, locate one named entry and write  *)
(* it to a destination directory.  The model follows the variant of        *)
(* main.go that supports both tar.gz and zip archives and templated        *)
(* --from / --file arguments.                                              *)
(*                                                                         *)
(* Strings are sequences of one-character strings, byte contents are       *)
(* sequences of numbers, permission modes are numbers (0755 = 493).        *)
(***************************************************************************)
EXTENDS Integers, Sequences, FiniteSets, TLC

(***************************************************************************)
(* Bounds of the model.                                                    *)
(***************************************************************************)
MaxEntries == 2

(***************************************************************************)
(* String helpers (package strings).  A string is a sequence of runes: an  *)
(* ASCII rune is written as the one-character string, a rune outside       *)
(* ASCII by its code point ("U+0130").                                     *)
(***************************************************************************)
Upper == <<"A","B","C","D","E","F","G","H","I","J","K","L","M",
           "N","O","P","Q","R","S","T","U","V","W","X","Y","Z">>
Lower == <<"a","b","c","d","e","f","g","h","i","j","k","l","m",
           "n","o","p","q","r","s","t","u","v","w","x","y","z">>

\* runes outside ASCII, with the rune unicode.ToLower maps each to: the two
\* whose lower case is an ASCII letter (I with dot above, Kelvin sign) and a
\* pair whose lower case is not (E acute)
Runes ==
    <<[rune |-> "U+0130", code |-> 304,  lower |-> "i"],
      [rune |-> "U+212A", code |-> 8490, lower |-> "k"],
      [rune |-> "U+00C9", code |-> 201,  lower |-> "U+00E9"],
      [rune |-> "U+00E9", code |-> 233,  lower |-> "U+00E9"]>>

IsRune(c) == \E i \in 1..Len(Runes) : Runes[i].rune = c
RuneOf(c) == Runes[CHOOSE i \in 1..Len(Runes) : Runes[i].rune = c]

LowerChar(c) ==
    IF \E i \in 1..26 : Upper[i] = c
    THEN Lower[CHOOSE i \in 1..26 : Upper[i] = c]
    ELSE IF IsRune(c) THEN RuneOf(c).lower
    ELSE c

ToLower(s) == [i \in 1..Len(s) |-> LowerChar(s[i])]

HasSuffix(s, suffix) ==
    /\ Len(s) >= Len(suffix)
    /\ SubSeq(s, Len(s) - Len(suffix) + 1, Len(s)) = suffix

HasPrefixAt(s, i, p) ==
    /\ i >= 1
    /\ i + Len(p) - 1 <= Len(s)
    /\ SubSeq(s, i, i + Len(p) - 1) = p

\* first index from j on at which p starts in s, 0 when there is none
RECURSIVE Index(_, _, _)
Index(s, j, p) ==
    IF j + Len(p) - 1 > Len(s) THEN 0
    ELSE IF HasPrefixAt(s, j, p) THEN j
    ELSE Index(s, j + 1, p)

(***************************************************************************)
(* Package path: Base, Clean, Join.                                        *)
(***************************************************************************)
RECURSIVE StripTrailingSlashes(_)
StripTrailingSlashes(p) ==
    IF Len(p) > 0 /\ p[Len(p)] = "/"
    THEN StripTrailingSlashes(SubSeq(p, 1, Len(p) - 1))
    ELSE p

RECURSIVE LastSlash(_, _)
LastSlash(p, i) ==
    IF i = 0 THEN 0
    ELSE IF p[i] = "/" THEN i
    ELSE LastSlash(p, i - 1)

Base(p) ==
    IF p = <<>> THEN <<".">>
    ELSE LET q == StripTrailingSlashes(p)
             r == SubSeq(q, LastSlash(q, Len(q)) + 1, Len(q))
         IN  IF r = <<>> THEN <<"/">> ELSE r

\* the "/"-separated elements of p, empty elements included
RECURSIVE SplitSlash(_, _, _)
SplitSlash(p, i, cur) ==
    IF i > Len(p) THEN <<cur>>
    ELSE IF p[i] = "/" THEN <<cur>> \o SplitSlash(p, i + 1, <<>>)
    ELSE SplitSlash(p, i + 1, Append(cur, p[i]))

\* Clean's element stack: "." and empty elements vanish, ".." removes the
\* element before it, is dropped at the root and is kept otherwise
RECURSIVE CleanStack(_, _, _, _)
CleanStack(elems, i, rooted, stack) ==
    IF i > Len(elems) THEN stack
    ELSE LET e == elems[i] IN
         IF e = <<>> \/ e = <<".">> THEN CleanStack(elems, i + 1, rooted, stack)
         ELSE IF e = <<".", ".">> THEN
              IF Len(stack) > 0 /\ stack[Len(stack)] # <<".", ".">>
              THEN CleanStack(elems, i + 1, rooted, SubSeq(stack, 1, Len(stack) - 1))
              ELSE IF rooted THEN CleanStack(elems, i + 1, rooted, stack)
              ELSE CleanStack(elems, i + 1, rooted, Append(stack, e))
         ELSE CleanStack(elems, i + 1, rooted, Append(stack, e))

RECURSIVE JoinSlash(_, _)
JoinSlash(stack, i) ==
    IF i > Len(stack) THEN <<>>
    ELSE IF i = Len(stack) THEN stack[i]
    ELSE stack[i] \o <<"/">> \o JoinSlash(stack, i + 1)

Clean(p) ==
    IF p = <<>> THEN <<".">>
    ELSE LET rooted == p[1] = "/"
             stack  == CleanStack(SplitSlash(p, 1, <<>>), 1, rooted, <<>>)
             body   == JoinSlash(stack, 1)
         IN  IF rooted THEN <<"/">> \o body
             ELSE IF body = <<>> THEN <<".">> ELSE body

\* path.Join of two elements: empty elements are ignored, the rest is cleaned
Join(a, b) ==
    IF a = <<>> /\ b = <<>> THEN <<>>
    ELSE IF a = <<>> THEN Clean(b)
    ELSE IF b = <<>> THEN Clean(a)
    ELSE Clean(a \o <<"/">> \o b)

\* the directory a path lives in (what the kernel resolves before the last element)
Dir(p) ==
    LET i == LastSlash(p, Len(p))
    IN  IF i = 0 THEN <<".">>
        ELSE IF i = 1 THEN <<"/">>
        ELSE SubSeq(p, 1, i - 1)

(***************************************************************************)
(* Variable substitution: html/template Parse and Execute over a           *)
(* map[string]string.                                                      *)
(*                                                                         *)
(* Parse follows text/template: the lexer (text, delimiters with trim      *)
(* markers, comments, and inside an action fields, variables, identifiers, *)
(* keywords, strings, character constants, numbers, parentheses, pipes)    *)
(* and the parser (pipelines with declarations, commands, operands and     *)
(* the if, with and range actions).  Execute follows html/template: the    *)
(* escaper's pass over the tree, then the evaluation of the actions.       *)
(*                                                                         *)
(* NotModelled marks what this development does not describe.  An operator *)
(* applied to such an input has no value (its evaluation stops), so the    *)
(* model states nothing about it.  These are: the define, template and     *)
(* block actions and {{else with}}; numbers other than decimal integers    *)
(* and decimal fractions of at most MaxDigits digits on either side of the *)
(* point and 15 digits in all; escape sequences by                         *)
(* number (\x, \u, \U, octal) in strings and any escape in a character     *)
(* constant; the functions html, js, urlquery, slice and call, index on    *)
(* a string, printf verbs other than %v %s %d %t and any flag, width or    *)
(* precision; range over a string or a number and range with an            *)
(* assignment; break and continue under the escaper; and, in the           *)
(* escaper, script and style elements, the attributes style, srcset and    *)
(* on..., and an action placed in the value of a URL attribute or in an    *)
(* attribute value without quotes.  The table of attribute names is the    *)
(* one of html/template's attr.go.                                         *)
(***************************************************************************)
NotModelled(what) == CHOOSE x \in {} : x = what

IsSpace(c) == c \in {" ", "\t", "\r", "\n"}

Digits == <<"0", "1", "2", "3", "4", "5", "6", "7", "8", "9">>
IsDigit(c) == \E i \in 1..10 : Digits[i] = c

AsciiAlpha(c) ==
    \/ \E i \in 1..26 : Lower[i] = c
    \/ \E i \in 1..26 : Upper[i] = c

IsLetter(c) == AsciiAlpha(c) \/ IsRune(c)

\* the lexer's isAlphaNumeric
IsNameChar(c) == c = "_" \/ IsLetter(c) \/ IsDigit(c)

RECURSIVE NameEnd(_, _)
NameEnd(t, j) ==
    IF j <= Len(t) /\ IsNameChar(t[j]) THEN NameEnd(t, j + 1) ELSE j

RECURSIVE SkipSpace(_, _)
SkipSpace(t, j) ==
    IF j <= Len(t) /\ IsSpace(t[j]) THEN SkipSpace(t, j + 1) ELSE j

RECURSIVE RTrim(_)
RTrim(s) ==
    IF Len(s) > 0 /\ IsSpace(s[Len(s)]) THEN RTrim(SubSeq(s, 1, Len(s) - 1))
    ELSE s

LeftDelim == <<"{", "{">>
RightDelim == <<"}", "}">>

\* "{{- ": the text before the action loses its trailing white space
HasLeftTrimMarker(t, j) ==
    j + 1 <= Len(t) /\ t[j] = "-" /\ IsSpace(t[j + 1])

\* " -}}": the text after the action loses its leading white space
HasRightTrimMarker(t, j) ==
    j >= 1 /\ j + 1 <= Len(t) /\ IsSpace(t[j]) /\ t[j + 1] = "-"

\* the lexer's atRightDelim at j; next is where the text goes on
AtRightDelim(t, j) ==
    IF HasRightTrimMarker(t, j) /\ HasPrefixAt(t, j + 2, RightDelim)
    THEN [delim |-> TRUE, trim |-> TRUE, next |-> j + 4]
    ELSE IF HasPrefixAt(t, j, RightDelim)
    THEN [delim |-> TRUE, trim |-> FALSE, next |-> j + 2]
    ELSE [delim |-> FALSE, trim |-> FALSE, next |-> j]

\* where the text goes on after a closing delimiter
AfterDelim(t, rd) == IF rd.trim THEN SkipSpace(t, rd.next) ELSE rd.next

\* the rune at j, EOF past the end
EOF == "EOF"
At(t, j) == IF j >= 1 /\ j <= Len(t) THEN t[j] ELSE EOF

\* the lexer's atTerminator: what may follow a field name
AtTerminator(t, p) ==
    \/ p > Len(t)
    \/ IsSpace(t[p])
    \/ t[p] \in {".", ",", "|", ":", ")", "("}
    \/ HasPrefixAt(t, p, RightDelim)

\* the printable ASCII runes in code point order, from the space (32) on
\* (the backquote is written by its code point)
Printable ==
    <<" ", "!", "\"", "#", "$", "%", "&", "'", "(", ")", "*", "+",
      ",", "-", ".", "/", "0", "1", "2", "3", "4", "5", "6", "7",
      "8", "9", ":", ";", "<", "=", ">", "?", "@", "A", "B", "C",
      "D", "E", "F", "G", "H", "I", "J", "K", "L", "M", "N", "O",
      "P", "Q", "R", "S", "T", "U", "V", "W", "X", "Y", "Z", "[",
      "\\", "]", "^", "_", "U+0060", "a", "b", "c", "d", "e", "f", "g",
      "h", "i", "j", "k", "l", "m", "n", "o", "p", "q", "r", "s",
      "t", "u", "v", "w", "x", "y", "z", "{", "|", "}", "~">>

IsPrintable(c) ==
    LET In(runes) == \E i \in 1..Len(runes) : runes[i] = c
    IN  In(Printable)

\* the control characters a string can hold: white space and the runes the
\* escape sequences \a, \b and \v stand for
Controls ==
    <<[rune |-> "U+0007", code |-> 7], [rune |-> "U+0008", code |-> 8],
      [rune |-> "\t", code |-> 9], [rune |-> "\n", code |-> 10],
      [rune |-> "U+000B", code |-> 11], [rune |-> "\f", code |-> 12],
      [rune |-> "\r", code |-> 13]>>

\* the code point of a rune
Ord(c) ==
    LET Control(table) ==
            table[CHOOSE i \in 1..Len(table) : table[i].rune = c].code
        In(runes) ==
            IF \E i \in 1..Len(runes) : runes[i] = c
            THEN 31 + (CHOOSE i \in 1..Len(runes) : runes[i] = c)
            ELSE IF IsRune(c) THEN RuneOf(c).code
            ELSE Control(Controls)
    IN  In(Printable)

\* the number of bytes of a rune in UTF-8
Utf8Len(c) ==
    LET Size(code) == IF code < 128 THEN 1 ELSE IF code < 2048 THEN 2 ELSE 3
    IN  Size(Ord(c))

(* ---------------- text/template/parse: the lexer ---------------- *)

Tok(typ, val) == [typ |-> typ, val |-> val]

\* the lexer's key table, without the dot; the item type carries the word
KeyWords ==
    <<[word |-> <<"b", "l", "o", "c", "k">>, typ |-> "block"],
      [word |-> <<"b", "r", "e", "a", "k">>, typ |-> "break"],
      [word |-> <<"c", "o", "n", "t", "i", "n", "u", "e">>, typ |-> "continue"],
      [word |-> <<"d", "e", "f", "i", "n", "e">>, typ |-> "define"],
      [word |-> <<"e", "l", "s", "e">>, typ |-> "else"],
      [word |-> <<"e", "n", "d">>, typ |-> "end"],
      [word |-> <<"i", "f">>, typ |-> "if"],
      [word |-> <<"r", "a", "n", "g", "e">>, typ |-> "range"],
      [word |-> <<"n", "i", "l">>, typ |-> "nil"],
      [word |-> <<"t", "e", "m", "p", "l", "a", "t", "e">>, typ |-> "template"],
      [word |-> <<"w", "i", "t", "h">>, typ |-> "with"]>>

\* index of the quote that closes the quoted text starting at q, 0 when it
\* is not terminated on its line; a backslash takes the next rune with it
RECURSIVE ScanQuoted(_, _, _)
ScanQuoted(t, q, quote) ==
    IF q > Len(t) \/ t[q] = "\n" THEN 0
    ELSE IF t[q] = "\\"
    THEN IF q + 1 > Len(t) \/ t[q + 1] = "\n" THEN 0
         ELSE ScanQuoted(t, q + 2, quote)
    ELSE IF t[q] = quote THEN q
    ELSE ScanQuoted(t, q + 1, quote)

\* lexQuote and lexChar
QuoteEnd(t, q) == ScanQuoted(t, q, "\"")
CharEnd(t, q) == ScanQuoted(t, q, "'")

\* the end of the run of runes of a set from j on
RECURSIVE AcceptRun(_, _, _)
AcceptRun(t, j, set) ==
    IF j <= Len(t) /\ t[j] \in set THEN AcceptRun(t, j + 1, set) ELSE j

DecDigits == {"0", "1", "2", "3", "4", "5", "6", "7", "8", "9", "_"}
HexDigits == DecDigits \cup {"a", "b", "c", "d", "e", "f",
                             "A", "B", "C", "D", "E", "F"}
OctDigits == {"0", "1", "2", "3", "4", "5", "6", "7", "_"}
BinDigits == {"0", "1", "_"}

\* the lexer's scanNumber from j: sign, base prefix, digits, fraction,
\* exponent, imaginary mark; the rune after it must not be alphanumeric
ScanNumber(t, j) ==
    LET a == IF At(t, j) \in {"+", "-"} THEN j + 1 ELSE j
        BaseOf(mark) == IF mark \in {"x", "X"} THEN "hex"
                      ELSE IF mark \in {"o", "O"} THEN "oct"
                      ELSE IF mark \in {"b", "B"} THEN "bin"
                      ELSE "dec"
        base == IF At(t, a) = "0" THEN BaseOf(At(t, a + 1)) ELSE "dec"
        DigitsOf(b) == IF b = "hex" THEN HexDigits
                       ELSE IF b = "oct" THEN OctDigits
                       ELSE IF b = "bin" THEN BinDigits
                       ELSE DecDigits
        Start(b) == IF At(t, a) # "0" THEN a
                    ELSE IF b = "dec" THEN a + 1 ELSE a + 2
        Fraction(digits, d) ==
            IF At(t, d) = "." THEN AcceptRun(t, d + 1, digits) ELSE d
        Exponent(b, e) ==
            IF \/ b = "dec" /\ At(t, e) \in {"e", "E"}
               \/ b = "hex" /\ At(t, e) \in {"p", "P"}
            THEN AcceptRun(t, IF At(t, e + 1) \in {"+", "-"}
                              THEN e + 2 ELSE e + 1, DecDigits)
            ELSE e
        Imaginary(f) == IF At(t, f) = "i" THEN f + 1 ELSE f
        End(g) == [ok |-> ~(g <= Len(t) /\ IsNameChar(t[g])), next |-> g]
    IN  End(Imaginary(Exponent(base,
            Fraction(DigitsOf(base),
                     AcceptRun(t, Start(base), DigitsOf(base))))))

\* lexNumber: a number, or two of them as a complex constant
LexNumber(t, j) ==
    LET Item(typ, e) ==
            [ok |-> TRUE, next |-> e, tok |-> Tok(typ, SubSeq(t, j, e - 1))]
        Second(m) == IF m.ok /\ t[m.next - 1] = "i"
                     THEN Item("complex", m.next)
                     ELSE [ok |-> FALSE]
        First(n, m) == IF ~n.ok THEN [ok |-> FALSE]
                       ELSE IF At(t, n.next) \in {"+", "-"} THEN Second(m)
                       ELSE Item("num", n.next)
    IN  First(ScanNumber(t, j), ScanNumber(t, ScanNumber(t, j).next))

\* lexField and lexVariable at the "." or "$" at j: the bare dot or
\* variable, or the name that follows; the name must end at a terminator
LexFieldOrVariable(t, j, typ) ==
    LET Name(e) ==
            IF AtTerminator(t, j + 1)
            THEN [ok |-> TRUE, next |-> j + 1,
                  tok |-> IF typ = "var" THEN Tok("var", <<"$">>)
                          ELSE Tok("dot", <<>>)]
            ELSE IF ~AtTerminator(t, e) THEN [ok |-> FALSE]
            ELSE [ok |-> TRUE, next |-> e,
                  tok |-> IF typ = "var" THEN Tok("var", SubSeq(t, j, e - 1))
                          ELSE Tok("field", SubSeq(t, j + 1, e - 1))]
    IN  Name(NameEnd(t, j + 1))

\* lexIdentifier: a keyword, a boolean constant or an identifier
LexIdentifier(t, j) ==
    LET Word(e, word, keys) ==
            IF ~AtTerminator(t, e) THEN [ok |-> FALSE]
            ELSE [ok |-> TRUE, next |-> e,
                  tok |-> IF \E i \in 1..Len(keys) : keys[i].word = word
                          THEN Tok(keys[CHOOSE i \in 1..Len(keys) :
                                            keys[i].word = word].typ, word)
                          ELSE IF word \in {<<"t", "r", "u", "e">>, <<"f", "a", "l", "s", "e">>}
                          THEN Tok("bool", word)
                          ELSE Tok("ident", word)]
    IN  Word(NameEnd(t, j), SubSeq(t, j, NameEnd(t, j) - 1), KeyWords)

\* lexText and lexInsideAction: the items of a template, ending with the
\* item eof; ok = FALSE when the lexer reports an error.  A comment leaves
\* no item
RECURSIVE LexText(_, _, _, _), LexInsideAction(_, _, _, _)
LexText(t, i, text, toks) ==
    LET Flush(tx) == IF tx = <<>> THEN toks ELSE Append(toks, Tok("text", tx))
        bad       == [ok |-> FALSE, toks |-> <<>>]
    IN
    IF i > Len(t)
    THEN [ok |-> TRUE, toks |-> Append(Flush(text), Tok("eof", <<>>))]
    ELSE IF HasPrefixAt(t, i, LeftDelim) THEN
         LET ltrim   == HasLeftTrimMarker(t, i + 2)
             a       == IF ltrim THEN i + 4 ELSE i + 2
             flushed == Flush(IF ltrim THEN RTrim(text) ELSE text)
         IN  IF HasPrefixAt(t, a, <<"/", "*">>)
             THEN LET x  == Index(t, a + 2, <<"*", "/">>)
                      rd == AtRightDelim(t, x + 2)
                  IN  IF x = 0 \/ ~rd.delim THEN bad
                      ELSE LexText(t, AfterDelim(t, rd), <<>>, flushed)
             ELSE LexInsideAction(t, a, 0,
                                  Append(flushed, Tok("ldelim", <<>>)))
    ELSE LexText(t, i + 1, Append(text, t[i]), toks)

LexInsideAction(t, j, depth, toks) ==
    LET rd  == AtRightDelim(t, j)
        c   == At(t, j)
        bad == [ok |-> FALSE, toks |-> <<>>]
        Emit(tok, next) == LexInsideAction(t, next, depth, Append(toks, tok))
        Lexed(r) == IF r.ok THEN Emit(r.tok, r.next) ELSE bad
    IN
    IF rd.delim
    THEN IF depth = 0
         THEN LexText(t, AfterDelim(t, rd), <<>>,
                      Append(toks, Tok("rdelim", <<>>)))
         ELSE bad
    ELSE IF c = EOF THEN bad
    ELSE IF IsSpace(c)
    THEN LET k == SkipSpace(t, j)
         IN  IF AtRightDelim(t, k - 1).delim
             THEN Emit(Tok("space", <<>>), k - 1)
             ELSE Emit(Tok("space", <<>>), k)
    ELSE IF c = "=" THEN Emit(Tok("assign", <<>>), j + 1)
    ELSE IF c = ":"
    THEN IF At(t, j + 1) = "=" THEN Emit(Tok("declare", <<>>), j + 2) ELSE bad
    ELSE IF c = "|" THEN Emit(Tok("pipe", <<>>), j + 1)
    ELSE IF c = "\""
    THEN LET q == QuoteEnd(t, j + 1)
         IN  IF q = 0 THEN bad
             ELSE Emit(Tok("str", SubSeq(t, j + 1, q - 1)), q + 1)
    ELSE IF c = "U+0060"
    THEN LET q == Index(t, j + 1, <<"U+0060">>)
         IN  IF q = 0 THEN bad
             ELSE Emit(Tok("raw", SubSeq(t, j + 1, q - 1)), q + 1)
    ELSE IF c = "$" THEN Lexed(LexFieldOrVariable(t, j, "var"))
    ELSE IF c = "'"
    THEN LET q == CharEnd(t, j + 1)
         IN  IF q = 0 THEN bad
             ELSE Emit(Tok("char", SubSeq(t, j + 1, q - 1)), q + 1)
    ELSE IF c = "." /\ j + 1 <= Len(t) /\ ~IsDigit(t[j + 1])
    THEN Lexed(LexFieldOrVariable(t, j, "field"))
    ELSE IF c \in {".", "+", "-"} \/ IsDigit(c) THEN Lexed(LexNumber(t, j))
    ELSE IF IsNameChar(c) THEN Lexed(LexIdentifier(t, j))
    ELSE IF c = "("
    THEN LexInsideAction(t, j + 1, depth + 1,
                         Append(toks, Tok("lparen", <<>>)))
    ELSE IF c = ")"
    THEN IF depth = 0 THEN bad
         ELSE LexInsideAction(t, j + 1, depth - 1,
                              Append(toks, Tok("rparen", <<>>)))
    ELSE IF IsPrintable(c) THEN Emit(Tok("char1", <<c>>), j + 1)
    ELSE bad

Lex(t) == LexText(t, 1, <<>>, <<>>)

(* ---------------- values ---------------- *)

\* what a pipeline can yield: a string, an int, a float64 (a decimal
\* fraction: sign b, integer part n, digits s after the point), a bool, the
\* map, no value (a key the map lacks) and the nil interface
StrV(s) == [t |-> "str", s |-> s, n |-> 0, b |-> FALSE]
IntV(n) == [t |-> "int", s |-> <<>>, n |-> n, b |-> FALSE]
BoolV(b) == [t |-> "bool", s |-> <<>>, n |-> 0, b |-> b]
FloatV(neg, ip, frac) == [t |-> "float", s |-> frac, n |-> ip, b |-> neg]
MapV == [t |-> "map", s |-> <<>>, n |-> 0, b |-> FALSE]
NoV == [t |-> "none", s |-> <<>>, n |-> 0, b |-> FALSE]
NilV == [t |-> "nil", s |-> <<>>, n |-> 0, b |-> FALSE]

MaxDigits == 9

DigitVal(c) == (CHOOSE i \in 1..10 : Digits[i] = c) - 1

RECURSIVE ToInt(_)
ToInt(ds) ==
    IF ds = <<>> THEN 0
    ELSE 10 * ToInt(SubSeq(ds, 1, Len(ds) - 1)) + DigitVal(ds[Len(ds)])

RECURSIVE StripZeros(_)
StripZeros(ds) ==
    IF Len(ds) > 0 /\ ds[Len(ds)] = "0"
    THEN StripZeros(SubSeq(ds, 1, Len(ds) - 1))
    ELSE ds

\* the parser's newNumber for a number item: strconv.ParseInt with base 0,
\* else strconv.ParseFloat.  A decimal of at most 15 significant digits is
\* the shortest decimal of the float64 nearest to it, so that the float64
\* is described by these digits; a longer one is rounded and is left out
NumberValue(text) ==
    LET neg  == text[1] = "-"
        body == IF text[1] \in {"+", "-"} THEN Tail(text) ELSE text
        dot  == Index(body, 1, <<".">>)
        ip   == SubSeq(body, 1, dot - 1)
        frac == SubSeq(body, dot + 1, Len(body))
    IN  IF \E i \in 1..Len(body) : ~IsDigit(body[i]) /\ body[i] # "."
        THEN NotModelled("number with a base prefix, exponent, underscore or imaginary part")
        ELSE IF dot = 0
        THEN IF body = <<>> THEN [ok |-> FALSE]
             ELSE IF Len(body) > MaxDigits \/ (Len(body) > 1 /\ body[1] = "0")
             THEN NotModelled("long or octal integer")
             ELSE [ok |-> TRUE,
                   val |-> IntV(IF neg THEN 0 - ToInt(body) ELSE ToInt(body))]
        ELSE IF ip = <<>> /\ frac = <<>> THEN [ok |-> FALSE]
        ELSE IF Len(ip) > MaxDigits \/ Len(frac) > MaxDigits
                \/ (neg /\ ToInt(ip) = 0 /\ StripZeros(frac) = <<>>)
        THEN NotModelled("long fraction or negative zero")
        ELSE IF Len(ip) + Len(frac) > 15
        THEN NotModelled("float constant of more than 15 digits")
        ELSE [ok |-> TRUE, val |-> FloatV(neg, ToInt(ip), StripZeros(frac))]

\* newNumber for a character constant (the text between the quotes)
CharValue(text) ==
    IF text = <<>> THEN [ok |-> FALSE]
    ELSE IF text[1] = "\\" THEN NotModelled("escape in a character constant")
    ELSE IF Len(text) > 1 THEN [ok |-> FALSE]
    ELSE [ok |-> TRUE, val |-> IntV(Ord(text[1]))]

\* strconv.Unquote of a double-quoted string (the text between the quotes)
RECURSIVE Unquote(_, _)
Unquote(text, i) ==
    LET rest(k) == Unquote(text, k)
        Put(c, k) == IF rest(k).ok
                     THEN [ok |-> TRUE, s |-> <<c>> \o rest(k).s]
                     ELSE [ok |-> FALSE]
        e == text[i + 1]
    IN  IF i > Len(text) THEN [ok |-> TRUE, s |-> <<>>]
        ELSE IF text[i] # "\\" THEN Put(text[i], i + 1)
        ELSE IF e = "a" THEN Put("U+0007", i + 2)
        ELSE IF e = "b" THEN Put("U+0008", i + 2)
        ELSE IF e = "f" THEN Put("\f", i + 2)
        ELSE IF e = "n" THEN Put("\n", i + 2)
        ELSE IF e = "r" THEN Put("\r", i + 2)
        ELSE IF e = "t" THEN Put("\t", i + 2)
        ELSE IF e = "v" THEN Put("U+000B", i + 2)
        ELSE IF e = "\\" THEN Put("\\", i + 2)
        ELSE IF e = "\"" THEN Put("\"", i + 2)
        ELSE IF e \in {"x", "u", "U", "0", "1", "2", "3", "4", "5", "6", "7"}
        THEN NotModelled("escape sequence by number")
        ELSE [ok |-> FALSE]

\* strconv.Unquote of a raw string: carriage returns are dropped
UnquoteRaw(text) == SelectSeq(text, LAMBDA c : c # "\r")

(* ---------------- text/template/parse: the parser ---------------- *)

TextNode(s) == [kind |-> "text", val |-> s]
FieldNode(chain) == [kind |-> "field", chain |-> chain]
VariableNode(chain) == [kind |-> "var", chain |-> chain]
DotNode == [kind |-> "dot"]
NilNode == [kind |-> "nil"]
BoolNode(b) == [kind |-> "bool", val |-> BoolV(b)]
NumberNode(v) == [kind |-> "num", val |-> v]
StringNode(s) == [kind |-> "str", val |-> StrV(s)]
IdentifierNode(name) == [kind |-> "ident", val |-> name]
ChainNode(node, fields) == [kind |-> "chain", node |-> node, chain |-> fields]
PipeNode(decl, assign, cmds) ==
    [kind |-> "pipe", decl |-> decl, assign |-> assign, cmds |-> cmds]
ActionNode(pipe) == [kind |-> "action", pipe |-> pipe, esc |-> "none"]
BranchNode(kind, pipe, list, elseList) ==
    [kind |-> kind, pipe |-> pipe, list |-> list, elseList |-> elseList]
BreakNode == [kind |-> "break"]
ContinueNode == [kind |-> "continue"]

\* the functions text/template predefines
Builtins ==
    {<<"a", "n", "d">>, <<"c", "a", "l", "l">>, <<"h", "t", "m", "l">>, <<"i", "n", "d", "e", "x">>, <<"s", "l", "i", "c", "e">>, <<"j", "s">>,
     <<"l", "e", "n">>, <<"n", "o", "t">>, <<"o", "r">>, <<"p", "r", "i", "n", "t">>, <<"p", "r", "i", "n", "t", "f">>, <<"p", "r", "i", "n", "t", "l", "n">>,
     <<"u", "r", "l", "q", "u", "e", "r", "y">>, <<"e", "q">>, <<"g", "e">>, <<"g", "t">>, <<"l", "e">>, <<"l", "t">>, <<"n", "e">>}

\* the items a command can start with
OperandStart ==
    {"bool", "char", "complex", "dot", "field", "ident", "num", "nil",
     "raw", "str", "var", "lparen"}

Bad == [ok |-> FALSE]

\* nextNonSpace: the index of the next item that is not a space
NonSpace(toks, p) == IF toks[p].typ = "space" THEN p + 1 ELSE p

\* the field items that follow an operand directly
RECURSIVE FieldRun(_, _)
FieldRun(toks, p) ==
    IF toks[p].typ = "field" THEN <<toks[p].val>> \o FieldRun(toks, p + 1)
    ELSE <<>>

\* checkPipeline: a pipeline has a command, and only its first command may
\* start with a constant or the dot
CheckPipeline(cmds) ==
    /\ cmds # <<>>
    /\ \A i \in 2..Len(cmds) :
          cmds[i][1].kind \notin {"bool", "dot", "nil", "num", "str"}

\* The parser, by recursive descent over the items.  p is the index of
\* the next item, vs the variables in scope, depth the number of range
\* actions around the position.  Each operator answers ok = FALSE on a
\* syntax error and otherwise what it parsed and the index after it
RECURSIVE ParseTerm(_, _, _), ParseOperand(_, _, _),
          ParseCommand(_, _, _, _), ParseCmds(_, _, _, _, _),
          ParseDecls(_, _, _, _, _), ParsePipeline(_, _, _, _, _),
          ParseControl(_, _, _, _, _), ParseAction(_, _, _, _),
          ParseList(_, _, _, _, _, _)

\* term: nil = TRUE when the next item starts no term (it is not consumed)
ParseTerm(toks, p, vs) ==
    LET q  == NonSpace(toks, p)
        tk == toks[q]
        Got(node) == [ok |-> TRUE, nil |-> FALSE, node |-> node,
                      p |-> q + 1, vs |-> vs]
        Number(n) == IF n.ok THEN Got(NumberNode(n.val)) ELSE Bad
        Quoted(u) == IF u.ok THEN Got(StringNode(u.s)) ELSE Bad
        Paren(r) == IF r.ok
                    THEN [ok |-> TRUE, nil |-> FALSE, node |-> r.pipe,
                          p |-> r.p, vs |-> r.vs]
                    ELSE Bad
    IN  CASE tk.typ = "ident" ->
                IF tk.val \in Builtins THEN Got(IdentifierNode(tk.val)) ELSE Bad
          [] tk.typ = "dot" -> Got(DotNode)
          [] tk.typ = "nil" -> Got(NilNode)
          [] tk.typ = "var" ->
                IF \E i \in 1..Len(vs) : vs[i] = tk.val
                THEN Got(VariableNode(<<tk.val>>)) ELSE Bad
          [] tk.typ = "field" -> Got(FieldNode(<<tk.val>>))
          [] tk.typ = "bool" -> Got(BoolNode(tk.val = <<"t", "r", "u", "e">>))
          [] tk.typ = "complex" -> NotModelled("complex constant")
          [] tk.typ = "num" -> Number(NumberValue(tk.val))
          [] tk.typ = "char" -> Number(CharValue(tk.val))
          [] tk.typ = "lparen" ->
                Paren(ParsePipeline(toks, q + 1, vs, "paren", "rparen"))
          [] tk.typ = "str" -> Quoted(Unquote(tk.val, 1))
          [] tk.typ = "raw" -> Got(StringNode(UnquoteRaw(tk.val)))
          [] OTHER -> [ok |-> TRUE, nil |-> TRUE, node |-> NilNode,
                       p |-> q, vs |-> vs]

\* operand: a term and the fields chained to it
ParseOperand(toks, p, vs) ==
    LET With(r, fs, node) == [r EXCEPT !.node = node, !.p = r.p + Len(fs)]
        Chained(r, fs) ==
            IF r.nil \/ fs = <<>> THEN r
            ELSE IF r.node.kind = "field"
            THEN With(r, fs, FieldNode(r.node.chain \o fs))
            ELSE IF r.node.kind = "var"
            THEN With(r, fs, VariableNode(r.node.chain \o fs))
            ELSE IF r.node.kind \in {"bool", "str", "num", "nil", "dot"} THEN Bad
            ELSE With(r, fs, ChainNode(r.node, fs))
        Fields(r) == IF ~r.ok THEN Bad ELSE Chained(r, FieldRun(toks, r.p))
    IN  Fields(ParseTerm(toks, p, vs))

\* command: operands separated by spaces, up to a pipe (consumed), a
\* closing delimiter or a closing parenthesis
ParseCommand(toks, p, vs, args) ==
    LET After(r, as, tk) ==
            IF tk.typ = "space" THEN ParseCommand(toks, r.p + 1, r.vs, as)
            ELSE IF tk.typ \in {"rdelim", "rparen"}
            THEN IF as = <<>> THEN Bad
                 ELSE [ok |-> TRUE, args |-> as, p |-> r.p, vs |-> r.vs]
            ELSE IF tk.typ = "pipe"
            THEN IF as = <<>> THEN Bad
                 ELSE [ok |-> TRUE, args |-> as, p |-> r.p + 1, vs |-> r.vs]
            ELSE Bad
        Arg(r) == IF ~r.ok THEN Bad
                  ELSE After(r, IF r.nil THEN args ELSE Append(args, r.node),
                             toks[r.p])
    IN  Arg(ParseOperand(toks, p, vs))

\* the commands of a pipeline, up to the item that ends it (consumed)
ParseCmds(toks, p, vs, endtyp, cmds) ==
    LET q  == NonSpace(toks, p)
        tk == toks[q]
        Cmd(r) == IF ~r.ok THEN Bad
                  ELSE ParseCmds(toks, r.p, r.vs, endtyp, Append(cmds, r.args))
    IN  IF tk.typ = endtyp
        THEN IF CheckPipeline(cmds)
             THEN [ok |-> TRUE, cmds |-> cmds, p |-> q + 1, vs |-> vs]
             ELSE Bad
        ELSE IF tk.typ \notin OperandStart THEN Bad
        ELSE Cmd(ParseCommand(toks, q, vs, <<>>))

\* the declarations a pipeline starts with: $x := or $x =, and in a range
\* action $i, $x :=
ParseDecls(toks, p, vs, context, decl) ==
    LET q    == NonSpace(toks, p)
        v    == toks[q]
        n    == NonSpace(toks, q + 1)
        next == toks[n]
    IN  IF v.typ # "var"
        THEN [ok |-> TRUE, decl |-> decl, assign |-> FALSE, p |-> p, vs |-> vs]
        ELSE IF next.typ \in {"assign", "declare"}
        THEN [ok |-> TRUE, decl |-> Append(decl, v.val),
              assign |-> next.typ = "assign", p |-> n + 1,
              vs |-> Append(vs, v.val)]
        ELSE IF next.typ = "char1" /\ next.val = <<",">>
        THEN IF /\ context = "range"
                /\ decl = <<>>
                /\ toks[NonSpace(toks, n + 1)].typ \in {"var", "rdelim", "rparen"}
             THEN ParseDecls(toks, n + 1, Append(vs, v.val), context,
                             Append(decl, v.val))
             ELSE Bad
        ELSE [ok |-> TRUE, decl |-> decl, assign |-> FALSE, p |-> p, vs |-> vs]

ParsePipeline(toks, p, vs, context, endtyp) ==
    LET d == ParseDecls(toks, p, vs, context, <<>>)
        Cmds(c) ==
            IF ~c.ok THEN Bad
            ELSE [ok |-> TRUE, pipe |-> PipeNode(d.decl, d.assign, c.cmds),
                  p |-> c.p, vs |-> c.vs]
    IN  IF ~d.ok THEN Bad
        ELSE Cmds(ParseCmds(toks, d.p, d.vs, endtyp, <<>>))

\* parseControl for if, with and range, given the pipeline pl that follows
\* the keyword: the list, and after {{else}} the other list; {{else if}}
\* stands for {{else}}{{if}} with one {{end}}.  The variables declared
\* inside go out of scope at the end
ParseControl(kind, pl, toks, vs, depth) ==
    LET Got(l, elseList, q) ==
            [ok |-> TRUE, stop |-> "node", p |-> q, vs |-> vs,
             node |-> BranchNode(kind, pl.pipe, l.list, elseList)]
        ElseIf(l, c) == IF c.ok THEN Got(l, <<c.node>>, c.p) ELSE Bad
        Else(l, e) == IF e.ok /\ e.stop = "end" THEN Got(l, e.list, e.p)
                      ELSE Bad
        Body(l) ==
            IF ~l.ok THEN Bad
            ELSE IF l.stop = "end" THEN Got(l, <<>>, l.p)
            ELSE IF kind = "if" /\ toks[l.p].typ = "if"
            THEN ElseIf(l, ParseAction(toks, l.p, l.vs, depth))
            ELSE Else(l, ParseList(toks, l.p, l.vs, depth, FALSE, <<>>))
    IN  IF ~pl.ok THEN Bad
        ELSE Body(ParseList(toks, pl.p, pl.vs,
                            IF kind = "range" THEN depth + 1 ELSE depth,
                            FALSE, <<>>))

\* action, after the left delimiter: a keyword, or the pipeline of an
\* action.  stop says whether it is a node of the list ("node") or ends the
\* list ("else", "end")
ParseAction(toks, p, vs, depth) ==
    LET q    == NonSpace(toks, p)
        tk   == toks[q]
        e    == NonSpace(toks, q + 1)
        kind == IF tk.typ \in {"if", "with", "range"} THEN tk.typ
                ELSE "command"
        Stop(what, node, at) ==
            [ok |-> TRUE, stop |-> what, node |-> node, p |-> at, vs |-> vs]
        Piped(pl) ==
            IF kind # "command" THEN ParseControl(kind, pl, toks, vs, depth)
            ELSE IF pl.ok
            THEN [ok |-> TRUE, stop |-> "node", node |-> ActionNode(pl.pipe),
                  p |-> pl.p, vs |-> pl.vs]
            ELSE Bad
    IN  CASE tk.typ \in {"block", "template"} ->
                NotModelled("template and block actions")
          [] tk.typ \in {"break", "continue"} ->
                IF toks[e].typ # "rdelim" \/ depth = 0 THEN Bad
                ELSE Stop("node", IF tk.typ = "break" THEN BreakNode
                                  ELSE ContinueNode, e + 1)
          [] tk.typ = "else" ->
                IF toks[e].typ = "if" THEN Stop("else", NilNode, e)
                ELSE IF toks[e].typ = "with"
                THEN NotModelled("else with")
                ELSE IF toks[e].typ = "rdelim" THEN Stop("else", NilNode, e + 1)
                ELSE Bad
          [] tk.typ = "end" ->
                IF toks[e].typ = "rdelim" THEN Stop("end", NilNode, e + 1)
                ELSE Bad
          [] OTHER ->
                Piped(ParsePipeline(toks, IF kind = "command" THEN q ELSE q + 1,
                                    vs, kind, "rdelim"))

\* itemList, and at the top level the body of the template
ParseList(toks, p, vs, depth, top, list) ==
    LET tk == toks[p]
        Node(a) ==
            IF ~a.ok THEN Bad
            ELSE IF a.stop = "node"
            THEN ParseList(toks, a.p, a.vs, depth, top, Append(list, a.node))
            ELSE IF top THEN Bad
            ELSE [ok |-> TRUE, list |-> list, stop |-> a.stop, p |-> a.p,
                  vs |-> a.vs]
    IN  IF tk.typ = "eof"
        THEN IF top
             THEN [ok |-> TRUE, list |-> list, stop |-> "eof", p |-> p, vs |-> vs]
             ELSE Bad
        ELSE IF tk.typ = "text"
        THEN ParseList(toks, p + 1, vs, depth, top,
                       Append(list, TextNode(tk.val)))
        ELSE IF tk.typ # "ldelim" THEN Bad
        ELSE IF top /\ toks[NonSpace(toks, p + 1)].typ = "define"
        THEN NotModelled("define action")
        ELSE Node(ParseAction(toks, p + 1, vs, depth))

\* template.Parse: the node list, or ok = FALSE on a syntax error
Parse(t) ==
    LET Tree(r) == IF r.ok THEN [ok |-> TRUE, nodes |-> r.list]
                   ELSE [ok |-> FALSE, nodes |-> <<>>]
    IN  IF ~Lex(t).ok THEN [ok |-> FALSE, nodes |-> <<>>]
        ELSE Tree(ParseList(Lex(t).toks, 1, <<<<"$">>>>, 0, TRUE, <<>>))

(* ---------------- html/template: the escaper ---------------- *)

\* html/template's escaper for a value printed in HTML text
HTMLEscapeChar(c) ==
    IF c = "&" THEN <<"&", "a", "m", "p", ";">>
    ELSE IF c = "<" THEN <<"&", "l", "t", ";">>
    ELSE IF c = ">" THEN <<"&", "g", "t", ";">>
    ELSE IF c = "\"" THEN <<"&", "#", "3", "4", ";">>
    ELSE IF c = "'" THEN <<"&", "#", "3", "9", ";">>
    ELSE IF c = "+" THEN <<"&", "#", "4", "3", ";">>
    ELSE <<c>>

RECURSIVE HTMLEscape(_)
HTMLEscape(s) ==
    IF s = <<>> THEN <<>>
    ELSE HTMLEscapeChar(Head(s)) \o HTMLEscape(Tail(s))

CommentStart == <<"<", "!", "-", "-">>
CommentEnd == <<"-", "-", ">">>
Doctype == <<"<", "!", "d", "o", "c", "t", "y", "p", "e">>
AmpLt == <<"&", "l", "t", ";">>

\* elements whose body is not HTML text
SpecialElements ==
    {<<"s", "c", "r", "i", "p", "t">>, <<"s", "t", "y", "l", "e">>, <<"t", "e", "x", "t", "a", "r", "e", "a">>, <<"t", "i", "t", "l", "e">>}

AsciiAlphaNum(c) == AsciiAlpha(c) \/ IsDigit(c)

\* eatTagName: the end of the tag name that starts at p (p: there is none)
RECURSIVE TagNameFrom(_, _)
TagNameFrom(s, j) ==
    IF j > Len(s) THEN j
    ELSE IF AsciiAlphaNum(s[j]) THEN TagNameFrom(s, j + 1)
    ELSE IF s[j] \in {":", "-"} /\ j + 1 <= Len(s) /\ AsciiAlphaNum(s[j + 1])
    THEN TagNameFrom(s, j + 2)
    ELSE j

TagNameEnd(s, p) ==
    IF p > Len(s) \/ ~AsciiAlpha(s[p]) THEN p ELSE TagNameFrom(s, p + 1)

\* eatWhiteSpace, up to lim
RECURSIVE SkipTagSpace(_, _, _)
SkipTagSpace(s, j, lim) ==
    IF j <= lim /\ (IsSpace(s[j]) \/ s[j] = "\f")
    THEN SkipTagSpace(s, j + 1, lim)
    ELSE j

\* the escaper's context: the state, the delimiter of the attribute value
\* it is in, the special element it is in, and the kind of the attribute
\* the tag has named last
Ctx(state, delim, element, attr) ==
    [state |-> state, delim |-> delim, element |-> element, attr |-> attr]
NoElement == <<>>
TextCtx == Ctx("text", "none", NoElement, "none")
ErrorCtx == Ctx("error", "none", NoElement, "none")

\* attrTypeMap: the attribute names whose content is a URL, and the names
\* whose content is unsafe or HTML; every other name of the table is plain
URLAttrs ==
    {<<"a", "c", "t", "i", "o", "n">>, <<"a", "r", "c", "h", "i", "v", "e">>, <<"b", "a", "c", "k", "g", "r", "o", "u", "n", "d">>, <<"c", "i", "t", "e">>, <<"c", "l", "a", "s", "s", "i", "d">>,
     <<"c", "o", "d", "e", "b", "a", "s", "e">>, <<"d", "a", "t", "a">>, <<"f", "o", "r", "m", "a", "c", "t", "i", "o", "n">>, <<"h", "r", "e", "f">>, <<"i", "c", "o", "n">>,
     <<"l", "o", "n", "g", "d", "e", "s", "c">>, <<"m", "a", "n", "i", "f", "e", "s", "t">>, <<"p", "o", "s", "t", "e", "r">>, <<"p", "r", "o", "f", "i", "l", "e">>, <<"s", "r", "c">>,
     <<"u", "s", "e", "m", "a", "p">>, <<"x", "m", "l", "n", "s">>}

UnsafeAttrs ==
    {<<"a", "c", "c", "e", "p", "t", "-", "c", "h", "a", "r", "s", "e", "t">>, <<"a", "s", "y", "n", "c">>, <<"c", "h", "a", "l", "l", "e", "n", "g", "e">>, <<"c", "h", "a", "r", "s", "e", "t">>,
     <<"c", "o", "n", "t", "e", "n", "t">>, <<"c", "r", "o", "s", "s", "o", "r", "i", "g", "i", "n">>, <<"d", "e", "f", "e", "r">>, <<"e", "n", "c", "t", "y", "p", "e">>, <<"f", "o", "r", "m">>,
     <<"f", "o", "r", "m", "e", "n", "c", "t", "y", "p", "e">>, <<"f", "o", "r", "m", "m", "e", "t", "h", "o", "d">>, <<"f", "o", "r", "m", "n", "o", "v", "a", "l", "i", "d", "a", "t", "e">>,
     <<"h", "t", "t", "p", "-", "e", "q", "u", "i", "v">>, <<"k", "e", "y", "t", "y", "p", "e">>, <<"l", "a", "n", "g", "u", "a", "g", "e">>, <<"m", "e", "t", "h", "o", "d">>,
     <<"n", "o", "v", "a", "l", "i", "d", "a", "t", "e">>, <<"p", "a", "t", "t", "e", "r", "n">>, <<"r", "e", "l">>, <<"s", "a", "n", "d", "b", "o", "x">>, <<"t", "y", "p", "e">>,
     <<"v", "a", "l", "u", "e">>}

PlainAttrs ==
    {<<"a", "c", "c", "e", "p", "t">>, <<"a", "l", "t">>, <<"a", "u", "t", "o", "c", "o", "m", "p", "l", "e", "t", "e">>, <<"a", "u", "t", "o", "f", "o", "c", "u", "s">>,
     <<"a", "u", "t", "o", "p", "l", "a", "y">>, <<"b", "o", "r", "d", "e", "r">>, <<"c", "h", "e", "c", "k", "e", "d">>, <<"c", "l", "a", "s", "s">>, <<"c", "o", "l", "s">>,
     <<"c", "o", "l", "s", "p", "a", "n">>, <<"c", "o", "n", "t", "e", "n", "t", "e", "d", "i", "t", "a", "b", "l", "e">>, <<"c", "o", "n", "t", "e", "x", "t", "m", "e", "n", "u">>, <<"c", "o", "n", "t", "r", "o", "l", "s">>,
     <<"c", "o", "o", "r", "d", "s">>, <<"d", "a", "t", "e", "t", "i", "m", "e">>, <<"d", "e", "f", "a", "u", "l", "t">>, <<"d", "i", "r">>, <<"d", "i", "r", "n", "a", "m", "e">>,
     <<"d", "i", "s", "a", "b", "l", "e", "d">>, <<"d", "r", "a", "g", "g", "a", "b", "l", "e">>, <<"d", "r", "o", "p", "z", "o", "n", "e">>, <<"f", "o", "r">>,
     <<"f", "o", "r", "m", "t", "a", "r", "g", "e", "t">>, <<"h", "e", "a", "d", "e", "r", "s">>, <<"h", "e", "i", "g", "h", "t">>, <<"h", "i", "d", "d", "e", "n">>, <<"h", "i", "g", "h">>,
     <<"h", "r", "e", "f", "l", "a", "n", "g">>, <<"i", "d">>, <<"i", "s", "m", "a", "p">>, <<"k", "i", "n", "d">>, <<"l", "a", "b", "e", "l">>, <<"l", "a", "n", "g">>,
     <<"l", "i", "s", "t">>, <<"l", "o", "o", "p">>, <<"l", "o", "w">>, <<"m", "a", "x">>, <<"m", "a", "x", "l", "e", "n", "g", "t", "h">>, <<"m", "e", "d", "i", "a">>,
     <<"m", "e", "d", "i", "a", "g", "r", "o", "u", "p">>, <<"m", "i", "n">>, <<"m", "u", "l", "t", "i", "p", "l", "e">>, <<"n", "a", "m", "e">>, <<"o", "p", "e", "n">>,
     <<"o", "p", "t", "i", "m", "u", "m">>, <<"p", "l", "a", "c", "e", "h", "o", "l", "d", "e", "r">>, <<"p", "r", "e", "l", "o", "a", "d">>, <<"p", "u", "b", "d", "a", "t", "e">>,
     <<"r", "a", "d", "i", "o", "g", "r", "o", "u", "p">>, <<"r", "e", "a", "d", "o", "n", "l", "y">>, <<"r", "e", "q", "u", "i", "r", "e", "d">>, <<"r", "e", "v", "e", "r", "s", "e", "d">>,
     <<"r", "o", "w", "s">>, <<"r", "o", "w", "s", "p", "a", "n">>, <<"s", "p", "e", "l", "l", "c", "h", "e", "c", "k">>, <<"s", "c", "o", "p", "e">>, <<"s", "c", "o", "p", "e", "d">>,
     <<"s", "e", "a", "m", "l", "e", "s", "s">>, <<"s", "e", "l", "e", "c", "t", "e", "d">>, <<"s", "h", "a", "p", "e">>, <<"s", "i", "z", "e">>, <<"s", "i", "z", "e", "s">>,
     <<"s", "p", "a", "n">>, <<"s", "r", "c", "l", "a", "n", "g">>, <<"s", "t", "a", "r", "t">>, <<"s", "t", "e", "p">>, <<"t", "a", "b", "i", "n", "d", "e", "x">>,
     <<"t", "a", "r", "g", "e", "t">>, <<"t", "i", "t", "l", "e">>, <<"w", "i", "d", "t", "h">>, <<"w", "r", "a", "p">>}

\* the name attrType looks up: without a data- prefix or a namespace
AttrName(name) ==
    LET colon == Index(name, 1, <<":">>)
    IN  IF HasPrefixAt(name, 1, <<"d", "a", "t", "a", "-">>) THEN SubSeq(name, 6, Len(name))
        ELSE IF colon = 0 THEN name
        ELSE SubSeq(name, colon + 1, Len(name))

\* attrType: the content type of the attribute of the lower case name
AttrType(name) ==
    LET Of(short) ==
            IF short \in URLAttrs THEN "url"
            ELSE IF short \in UnsafeAttrs THEN "unsafe"
            ELSE IF short \in PlainAttrs THEN "plain"
            ELSE IF short = <<"s", "t", "y", "l", "e">> THEN "css"
            ELSE IF short = <<"s", "r", "c", "s", "e", "t">> THEN "srcset"
            ELSE IF short = <<"s", "r", "c", "d", "o", "c">> THEN "html"
            ELSE IF HasPrefixAt(short, 1, <<"o", "n">>) THEN "js"
            ELSE IF \/ Index(short, 1, <<"s", "r", "c">>) # 0
                    \/ Index(short, 1, <<"u", "r", "i">>) # 0
                    \/ Index(short, 1, <<"u", "r", "l">>) # 0
            THEN "url"
            ELSE "plain"
        Cut(colon, type) ==
            IF /\ ~HasPrefixAt(name, 1, <<"d", "a", "t", "a", "-">>)
               /\ colon # 0
               /\ SubSeq(name, 1, colon - 1) = <<"x", "m", "l", "n", "s">>
            THEN "url"
            ELSE type
    IN  Cut(Index(name, 1, <<":">>), Of(AttrName(name)))

\* the value filterFailsafe
FilterFailsafe == <<"Z", "g", "o", "t", "m", "p", "l", "Z">>

\* htmlNameFilter: the attribute name an action in a tag may write
HTMLNameFilter(s) ==
    LET Name(l, type) ==
            IF type # "plain" THEN FilterFailsafe
            ELSE IF \E i \in 1..Len(l) :
                        ~(IsDigit(l[i])
                          \/ (AsciiAlpha(l[i]) /\ LowerChar(l[i]) = l[i]))
            THEN FilterFailsafe
            ELSE l
    IN  IF s = <<>> THEN FilterFailsafe
        ELSE Name(ToLower(s), AttrType(ToLower(s)))

\* the state of the value of an attribute of a kind
AttrStart(attr) == IF attr = "url" THEN "url" ELSE "attr"

\* indexTagEnd: the first index from i on where the end tag of the special
\* element starts ("</", the name in any case, then a separator), 0 if none
RECURSIVE IndexTagEnd(_, _, _)
IndexTagEnd(s, i, element) ==
    LET Found(x, sep) ==
            IF x = 0 THEN 0
            ELSE IF /\ sep <= Len(s)
                    /\ ToLower(SubSeq(s, x + 2, sep - 1)) = element
                    /\ \A k \in x + 2 .. sep - 1 : AsciiAlpha(s[k])
                    /\ s[sep] \in {">", " ", "\t", "\n", "\f", "/"}
            THEN x
            ELSE IndexTagEnd(s, x + 2, element)
        Prefix(x) == Found(x, x + 2 + Len(element))
    IN  Prefix(Index(s, i, <<"<", "/">>))

\* eatAttrName from i up to lim: the index after the name, 0 for a quote or
\* "<" in the name
RECURSIVE EatAttrName(_, _, _)
EatAttrName(s, j, lim) ==
    IF j > lim THEN j
    ELSE IF s[j] \in {" ", "\t", "\n", "\f", "\r", "=", ">"} THEN j
    ELSE IF s[j] \in {"'", "\"", "<"} THEN 0
    ELSE EatAttrName(s, j + 1, lim)

\* tText from k: the next tag or comment
RECURSIVE TText(_, _)
TText(s, k) ==
    LET Elem(p, e, end, el) ==
            IF e = p THEN TText(s, p)
            ELSE IF end \/ el \notin SpecialElements
            THEN [c |-> Ctx("tag", "none", NoElement, "none"), i |-> e]
            ELSE IF el \in {<<"s", "c", "r", "i", "p", "t">>, <<"s", "t", "y", "l", "e">>}
            THEN NotModelled("script and style elements")
            ELSE [c |-> Ctx("tag", "none", el, "none"), i |-> e]
        Name(p, e, end) == Elem(p, e, end, ToLower(SubSeq(s, p, e - 1)))
        Tag(x, end, p) ==
            IF HasPrefixAt(s, x, CommentStart)
            THEN [c |-> Ctx("cmt", "none", NoElement, "none"), i |-> x + 4]
            ELSE IF end /\ x + 1 = Len(s) THEN [c |-> TextCtx, i |-> Len(s) + 1]
            ELSE Name(p, TagNameEnd(s, p), end)
        Open(x) ==
            IF x = 0 \/ x = Len(s) THEN [c |-> TextCtx, i |-> Len(s) + 1]
            ELSE Tag(x, s[x + 1] = "/", IF s[x + 1] = "/" THEN x + 2 ELSE x + 1)
    IN  Open(Index(s, k, <<"<">>))

\* tTag: the name of the next attribute, or the end of the tag
TTag(c, s, i, lim) ==
    LET k == SkipTagSpace(s, i, lim)
        j == EatAttrName(s, k, lim)
        Named(type) ==
            IF type \in {"css", "js", "srcset"}
            THEN NotModelled("style, srcset and event handler attributes")
            ELSE [c |-> Ctx(IF j > lim THEN "attrName" ELSE "afterName",
                            "none", c.element,
                            IF type = "url" THEN "url" ELSE "none"),
                  i |-> j]
    IN  IF k > lim THEN [c |-> c, i |-> lim + 1]
        ELSE IF s[k] = ">"
        THEN [c |-> Ctx(IF c.element = NoElement THEN "text" ELSE "rcdata",
                        "none", c.element, "none"),
              i |-> k + 1]
        ELSE IF j = 0 \/ j = k THEN [c |-> ErrorCtx, i |-> lim + 1]
        ELSE Named(AttrType(ToLower(SubSeq(s, k, j - 1))))

\* tAttrName: the rest of an attribute name
TAttrName(c, s, i, lim) ==
    LET Name(j) ==
            IF j = 0 THEN [c |-> ErrorCtx, i |-> lim + 1]
            ELSE [c |-> IF j > lim THEN c ELSE [c EXCEPT !.state = "afterName"],
                  i |-> j]
    IN  Name(EatAttrName(s, i, lim))

\* tAfterName: the "=" after an attribute name, or the next attribute
TAfterName(c, s, i, lim) ==
    LET Start(k) ==
            IF k > lim THEN [c |-> c, i |-> lim + 1]
            ELSE IF s[k] # "=" THEN [c |-> [c EXCEPT !.state = "tag"], i |-> k]
            ELSE [c |-> [c EXCEPT !.state = "beforeValue"], i |-> k + 1]
    IN  Start(SkipTagSpace(s, i, lim))

\* tBeforeValue: the quote that opens the value, if there is one
TBeforeValue(c, s, i, lim) ==
    LET Value(delim, j) ==
            [c |-> [c EXCEPT !.state = AttrStart(c.attr), !.delim = delim],
             i |-> j]
        Start(k) ==
            IF k > lim THEN [c |-> c, i |-> lim + 1]
            ELSE IF s[k] = "'" THEN Value("sq", k + 1)
            ELSE IF s[k] = "\"" THEN Value("dq", k + 1)
            ELSE Value("space", k)
    IN  Start(SkipTagSpace(s, i, lim))

\* tHTMLCmt: the end of the comment
THTMLCmt(c, s, i, lim) ==
    LET End(x) == IF x = 0 \/ x + 2 > lim THEN [c |-> c, i |-> lim + 1]
                  ELSE [c |-> TextCtx, i |-> x + 3]
    IN  End(Index(s, i, CommentEnd))

\* transitionFunc: the transition function of the state of c over s[i..lim]
Transition(c, s, i, lim) ==
    CASE c.state = "text" -> TText(s, i)
      [] c.state = "rcdata" -> [c |-> c, i |-> lim + 1]
      [] c.state = "cmt" -> THTMLCmt(c, s, i, lim)
      [] c.state = "tag" -> TTag(c, s, i, lim)
      [] c.state = "attrName" -> TAttrName(c, s, i, lim)
      [] c.state = "afterName" -> TAfterName(c, s, i, lim)
      [] c.state = "beforeValue" -> TBeforeValue(c, s, i, lim)

\* the runes that end an attribute value
DelimEnds(delim) ==
    IF delim = "dq" THEN {"\""}
    ELSE IF delim = "sq" THEN {"'"}
    ELSE {" ", "\t", "\n", "\f", "\r", ">"}

RECURSIVE IndexAny(_, _, _)
IndexAny(s, i, set) ==
    IF i > Len(s) THEN Len(s) + 1
    ELSE IF s[i] \in set THEN i
    ELSE IndexAny(s, i + 1, set)

\* contextAfterText: the context after the next piece of the text s from i
\* on, and where that piece ends
ContextAfterText(c, s, i) ==
    LET e == IF c.element = NoElement THEN 0 ELSE IndexTagEnd(s, i, c.element)
        x == IndexAny(s, i, DelimEnds(c.delim))
    IN  IF c.delim = "none"
        THEN IF e = i THEN [c |-> TextCtx, i |-> i]
             ELSE Transition(c, s, i, IF e = 0 THEN Len(s) ELSE e - 1)
        ELSE IF /\ c.delim = "space"
                /\ \E j \in i..(x - 1) : s[j] \in {"\"", "'", "<", "=", "U+0060"}
        THEN [c |-> ErrorCtx, i |-> Len(s) + 1]
        ELSE IF x > Len(s) THEN [c |-> c, i |-> x]
        ELSE [c |-> Ctx("tag", "none", c.element, "none"),
              i |-> IF c.delim = "space" THEN x ELSE x + 1]

\* s[i..j] with each "<" that starts no doctype replaced by &lt;
RECURSIVE EscapeLt(_, _, _)
EscapeLt(s, i, j) ==
    IF i > j THEN <<>>
    ELSE (IF s[i] = "<" /\ ~HasPrefixAt(ToLower(s), i, Doctype)
          THEN AmpLt ELSE <<s[i]>>)
         \o EscapeLt(s, i + 1, j)

RECURSIVE LastLt(_, _, _)
LastLt(s, i, j) ==
    IF j < i THEN 0 ELSE IF s[j] = "<" THEN j ELSE LastLt(s, i, j - 1)

\* escapeText: the escaper's pass over one text node that starts in context
\* c: what the node is rewritten to and the context after it.  In text and
\* in the body of title and textarea a "<" that starts no tag, comment or
\* doctype becomes &lt;, an HTML comment is dropped, a tag is kept
RECURSIVE EscapeText(_, _, _)
EscapeText(s, i, c) ==
    LET Seg(n, end) ==
            IF c.state \in {"text", "rcdata"}
            THEN EscapeLt(s, i, end - 1)
                 \o (IF n.c.state = "cmt" THEN <<>>
                     ELSE SubSeq(s, end, n.i - 1))
            ELSE IF c.state = "cmt" THEN <<>>
            ELSE SubSeq(s, i, n.i - 1)
        Out(seg, r) == [out |-> seg \o r.out, ctx |-> r.ctx]
        Upto(n, lt) == Out(Seg(n, IF lt = 0 THEN n.i ELSE lt),
                           EscapeText(s, n.i, n.c))
        Piece(n) ==
            IF n.c.state = "error" THEN [out |-> <<>>, ctx |-> ErrorCtx]
            ELSE Upto(n, IF n.c.state # c.state THEN LastLt(s, i, n.i - 1)
                         ELSE 0)
    IN  IF i > Len(s) THEN [out |-> <<>>, ctx |-> c]
        ELSE Piece(ContextAfterText(c, s, i))

\* the escapers html and urlquery, which a template may name only as the
\* last command of a pipeline
PredefinedEscapers == {<<"h", "t", "m", "l">>, <<"u", "r", "l", "q", "u", "e", "r", "y">>}

IsPredefined(cmd) ==
    cmd[1].kind = "ident" /\ cmd[1].val \in PredefinedEscapers

\* nudge: the context an action or the end of a branch is taken to be in
Nudge(c) ==
    IF c.state = "tag" THEN [c EXCEPT !.state = "attrName"]
    ELSE IF c.state = "beforeValue"
    THEN [c EXCEPT !.state = AttrStart(c.attr), !.delim = "space", !.attr = "none"]
    ELSE IF c.state = "afterName"
    THEN [c EXCEPT !.state = "attrName", !.attr = "none"]
    ELSE c

\* escapeAction: the escaper the context gives the action
EscapeAction(c0, n) ==
    LET Escaper(c, name) == [ctx |-> c, node |-> [n EXCEPT !.esc = name]]
        In(c) ==
            IF c.state \in {"text", "rcdata"} THEN Escaper(c, "html")
            ELSE IF c.state = "cmt" THEN Escaper(c, "comment")
            ELSE IF c.state = "attrName" THEN Escaper(c, "name")
            ELSE IF c.state = "attr" /\ c.delim \in {"dq", "sq"}
            THEN Escaper(c, "html")
            ELSE NotModelled("action in a URL or in an unquoted attribute value")
        Cmds(cmds) ==
            IF \E i \in 1..(Len(cmds) - 1) : IsPredefined(cmds[i])
            THEN [ctx |-> ErrorCtx, node |-> n]
            ELSE IF IsPredefined(cmds[Len(cmds)])
            THEN NotModelled("predefined escaper in a pipeline")
            ELSE In(Nudge(c0))
    IN  IF n.pipe.decl # <<>> THEN [ctx |-> c0, node |-> n]
        ELSE Cmds(n.pipe.cmds)

\* join: the context after a branch action, whose branches must end in the
\* same context, or in contexts that nudge makes the same
JoinCtx(a, b) ==
    LET Nudged(c, d) ==
            IF (c # a \/ d # b) /\ c = d THEN c ELSE ErrorCtx
    IN  IF a.state = "error" \/ b.state = "error" THEN ErrorCtx
        ELSE IF a = b THEN a
        ELSE Nudged(Nudge(a), Nudge(b))

\* escapeList: the pass over a node list from node i on, in context c
RECURSIVE EscapeList(_, _, _)
EscapeList(c, list, i) ==
    LET n == list[i]
        Escaped(tx) == [ctx |-> tx.ctx, node |-> TextNode(tx.out)]
        Joined(l1, c1, el) ==
            IF l1.ctx.state = "error" \/ c1.state = "error"
            THEN [ctx |-> ErrorCtx, node |-> n]
            ELSE [ctx |-> JoinCtx(c1, el.ctx),
                  node |-> [n EXCEPT !.list = l1.list, !.elseList = el.list]]
        Branch(l1) ==
            Joined(l1,
                   IF n.kind = "range"
                   THEN JoinCtx(l1.ctx, EscapeList(l1.ctx, n.list, 1).ctx)
                   ELSE l1.ctx,
                   EscapeList(c, n.elseList, 1))
        Rest(r, rest) == [ctx |-> rest.ctx, list |-> <<r.node>> \o rest.list]
        After(r) == IF r.ctx.state = "error"
                    THEN [ctx |-> ErrorCtx, list |-> <<>>]
                    ELSE Rest(r, EscapeList(r.ctx, list, i + 1))
    IN  IF i > Len(list) THEN [ctx |-> c, list |-> <<>>]
        ELSE After(CASE n.kind = "text" -> Escaped(EscapeText(n.val, 1, c))
                     [] n.kind = "action" -> EscapeAction(c, n)
                     [] n.kind \in {"break", "continue"} ->
                           NotModelled("break and continue under the escaper")
                     [] OTHER -> Branch(EscapeList(c, n.list, 1)))

(* ---------------- text/template: execution ---------------- *)

\* the order of Go strings
RECURSIVE Less(_, _)
Less(a, b) ==
    LET Before(x, y) == x < y
    IN  IF b = <<>> THEN FALSE
        ELSE IF a = <<>> THEN TRUE
        ELSE IF Head(a) # Head(b) THEN Before(Ord(Head(a)), Ord(Head(b)))
        ELSE Less(Tail(a), Tail(b))

RECURSIVE SortedKeys(_)
SortedKeys(S) ==
    LET First(k) == <<k>> \o SortedKeys(S \ {k})
    IN  IF S = {} THEN <<>>
        ELSE First(CHOOSE x \in S : \A y \in S \ {x} : Less(x, y))

RECURSIVE SprintPairs(_, _, _)
SprintPairs(keys, i, vars) ==
    IF i > Len(keys) THEN <<>>
    ELSE (IF i > 1 THEN <<" ">> ELSE <<>>)
         \o keys[i] \o <<":">> \o vars[keys[i]]
         \o SprintPairs(keys, i + 1, vars)

\* fmt.Sprint of the map: map[k1:v1 k2:v2], keys in order
SprintMap(vars) ==
    <<"m", "a", "p", "[">>
    \o SprintPairs(SortedKeys(DOMAIN vars), 1, vars)
    \o <<"]">>

RECURSIVE FormatNat(_)
FormatNat(n) ==
    IF n < 10 THEN <<Digits[n + 1]>>
    ELSE FormatNat(n \div 10) \o <<Digits[(n % 10) + 1]>>

FormatInt(n) == IF n < 0 THEN <<"-">> \o FormatNat(0 - n) ELSE FormatNat(n)

\* %v of a float64: strconv's format g with the shortest digits, which has
\* an exponent (of at least two digits) when the decimal exponent is below
\* -4 or at least 6, as in 1e+06 and 1e-05
FormatFloat(v) ==
    LET sign  == IF v.b THEN <<"-">> ELSE <<>>
        whole == FormatNat(v.n)
        zeros == CHOOSE k \in 0..Len(v.s) :
                     /\ \A j \in 1..k : v.s[j] = "0"
                     /\ (k = Len(v.s) \/ v.s[k + 1] # "0")
        Mantissa(ds) ==
            <<ds[1]>> \o (IF Len(ds) > 1 THEN <<".">> \o Tail(ds) ELSE <<>>)
        Exponent(e) == IF e < 10 THEN <<"0">> \o FormatNat(e) ELSE FormatNat(e)
    IN  IF v.n = 0 /\ v.s = <<>> THEN sign \o <<"0">>
        ELSE IF v.n > 0 /\ Len(whole) - 1 >= 6
        THEN sign \o Mantissa(StripZeros(whole \o v.s))
             \o <<"e", "+">> \o Exponent(Len(whole) - 1)
        ELSE IF v.n = 0 /\ zeros >= 4
        THEN sign \o Mantissa(SubSeq(v.s, zeros + 1, Len(v.s)))
             \o <<"e", "-">> \o Exponent(zeros + 1)
        ELSE sign \o whole \o (IF v.s = <<>> THEN <<>> ELSE <<".">> \o v.s)

\* fmt's %v of a value
FormatValue(v, vars) ==
    CASE v.t = "str" -> v.s
      [] v.t = "int" -> FormatInt(v.n)
      [] v.t = "float" -> FormatFloat(v)
      [] v.t = "bool" -> IF v.b THEN <<"t", "r", "u", "e">> ELSE <<"f", "a", "l", "s", "e">>
      [] v.t = "map" -> SprintMap(vars)
      [] OTHER -> <<"<", "n", "i", "l", ">">>

TypeName(v) ==
    CASE v.t = "str" -> <<"s", "t", "r", "i", "n", "g">>
      [] v.t = "int" -> <<"i", "n", "t">>
      [] v.t = "float" -> <<"f", "l", "o", "a", "t", "6", "4">>
      [] v.t = "bool" -> <<"b", "o", "o", "l">>
      [] v.t = "map" -> <<"m", "a", "p", "[", "s", "t", "r", "i", "n", "g", "]", "s", "t", "r", "i", "n", "g">>

\* fmt.Sprint: a space between two operands when neither is a string
RECURSIVE Sprint(_, _, _)
Sprint(vals, i, vars) ==
    IF i > Len(vals) THEN <<>>
    ELSE (IF i > 1 /\ vals[i].t # "str" /\ vals[i - 1].t # "str"
          THEN <<" ">> ELSE <<>>)
         \o FormatValue(vals[i], vars) \o Sprint(vals, i + 1, vars)

\* fmt.Sprintln: a space between operands and a newline at the end
RECURSIVE Sprintln(_, _, _)
Sprintln(vals, i, vars) ==
    IF i > Len(vals) THEN <<"\n">>
    ELSE (IF i > 1 THEN <<" ">> ELSE <<>>)
         \o FormatValue(vals[i], vars) \o Sprintln(vals, i + 1, vars)

\* the verbs fmt accepts for each kind of value, among v, s, d and t
GoodVerb(verb, v) ==
    \/ verb = "v"
    \/ verb = "s" /\ v.t \in {"str", "map"}
    \/ verb = "d" /\ v.t = "int"
    \/ verb = "t" /\ v.t = "bool"

\* one operand under a verb; a verb the kind does not take prints
\* %!verb(type=value)
FormatVerb(verb, v, vars) ==
    LET Shown(text) ==
            IF GoodVerb(verb, v) THEN text
            ELSE IF v.t = "map"
            THEN NotModelled("map under a verb other than v and s")
            ELSE <<"%", "!", verb, "(">>
                 \o (IF v.t = "nil" THEN <<"<", "n", "i", "l", ">">>
                     ELSE TypeName(v) \o <<"=">> \o text)
                 \o <<")">>
    IN  Shown(FormatValue(v, vars))

RECURSIVE ExtraArgs(_, _, _)
ExtraArgs(vals, i, vars) ==
    IF i > Len(vals) THEN <<>>
    ELSE (IF vals[i].t = "nil" THEN <<"<", "n", "i", "l", ">">>
          ELSE TypeName(vals[i]) \o <<"=">> \o FormatValue(vals[i], vars))
         \o (IF i < Len(vals) THEN <<",", " ">> ELSE <<>>)
         \o ExtraArgs(vals, i + 1, vars)

\* fmt.Sprintf for the verbs %v %s %d %t and %%, from rune i of the format
\* on, with the operands from a on
RECURSIVE Sprintf(_, _, _, _, _)
Sprintf(f, i, vals, a, vars) ==
    IF i > Len(f)
    THEN IF a > Len(vals) THEN <<>>
         ELSE <<"%", "!", "(", "E", "X", "T", "R", "A", " ">> \o ExtraArgs(vals, a, vars) \o <<")">>
    ELSE IF f[i] # "%" THEN <<f[i]>> \o Sprintf(f, i + 1, vals, a, vars)
    ELSE IF i = Len(f) THEN <<"%", "!", "(", "N", "O", "V", "E", "R", "B", ")">> \o Sprintf(f, i + 1, vals, a, vars)
    ELSE IF f[i + 1] = "%" THEN <<"%">> \o Sprintf(f, i + 2, vals, a, vars)
    ELSE IF f[i + 1] \notin {"v", "s", "d", "t"}
    THEN NotModelled("printf verb, flag, width or precision")
    ELSE IF a > Len(vals)
    THEN <<"%", "!", f[i + 1]>> \o <<"(", "M", "I", "S", "S", "I", "N", "G", ")">>
         \o Sprintf(f, i + 2, vals, a, vars)
    ELSE FormatVerb(f[i + 1], vals[a], vars)
         \o Sprintf(f, i + 2, vals, a + 1, vars)

\* the template package's isTrue
Truth(v, vars) ==
    CASE v.t = "str" -> v.s # <<>>
      [] v.t = "int" -> v.n # 0
      [] v.t = "float" -> v.n # 0 \/ v.s # <<>>
      [] v.t = "bool" -> v.b
      [] v.t = "map" -> DOMAIN vars # {}
      [] OTHER -> FALSE

\* the order of two float64 values
RECURSIVE DigitsLess(_, _)
DigitsLess(a, b) ==
    IF b = <<>> THEN FALSE
    ELSE IF a = <<>> THEN TRUE
    ELSE IF Head(a) # Head(b) THEN DigitVal(Head(a)) < DigitVal(Head(b))
    ELSE DigitsLess(Tail(a), Tail(b))

MagnitudeLess(a, b) == a.n < b.n \/ (a.n = b.n /\ DigitsLess(a.s, b.s))

FloatLess(a, b) ==
    IF a.b /\ ~b.b THEN TRUE
    ELSE IF ~a.b /\ b.b THEN FALSE
    ELSE IF a.b THEN MagnitudeLess(b, a)
    ELSE MagnitudeLess(a, b)

BasicKinds == {"str", "int", "float", "bool"}

\* the builtin eq: the first operand against each of the others in turn
RECURSIVE EqFrom(_, _)
EqFrom(vals, i) ==
    IF i > Len(vals) THEN [err |-> FALSE, val |-> BoolV(FALSE)]
    ELSE IF vals[1].t \notin BasicKinds \/ vals[i].t \notin BasicKinds
    THEN NotModelled("comparison with the map or with no value")
    ELSE IF vals[1].t # vals[i].t THEN [err |-> TRUE]
    ELSE IF vals[1] = vals[i] THEN [err |-> FALSE, val |-> BoolV(TRUE)]
    ELSE EqFrom(vals, i + 1)

Eq(vals) == IF Len(vals) = 1 THEN [err |-> TRUE] ELSE EqFrom(vals, 2)

\* the builtin lt
Lt(a, b) ==
    IF a.t \notin BasicKinds \/ b.t \notin BasicKinds \/ a.t # b.t
       \/ a.t = "bool"
    THEN [err |-> TRUE]
    ELSE [err |-> FALSE,
          val |-> BoolV(CASE a.t = "str" -> Less(a.s, b.s)
                          [] a.t = "int" -> a.n < b.n
                          [] a.t = "float" -> FloatLess(a, b))]

Negate(r) == IF r.err THEN r ELSE [err |-> FALSE, val |-> BoolV(~r.val.b)]

\* the builtin le, given what lt answers (l): lt, and when that is false
\* without an error, eq
Le(l, a, b) == IF l.err \/ l.val.b THEN l ELSE Eq(<<a, b>>)

\* the builtin index on the map: the value of the key, the empty string for
\* a key the map lacks
IndexValue(vals, vars) ==
    IF vals[1].t \in {"none", "nil"} THEN [err |-> TRUE]
    ELSE IF Len(vals) = 1 THEN [err |-> FALSE, val |-> vals[1]]
    ELSE IF vals[1].t = "str" THEN NotModelled("index on a string")
    ELSE IF vals[1].t # "map" \/ vals[2].t # "str" THEN [err |-> TRUE]
    ELSE IF Len(vals) > 2 THEN NotModelled("index on a string")
    ELSE [err |-> FALSE,
          val |-> IF vals[2].s \in DOMAIN vars THEN StrV(vars[vals[2].s])
                  ELSE StrV(<<>>)]

RECURSIVE ByteLen(_)
ByteLen(s) == IF s = <<>> THEN 0 ELSE Utf8Len(Head(s)) + ByteLen(Tail(s))

\* the builtin len
LenValue(v, vars) ==
    IF v.t = "str" THEN [err |-> FALSE, val |-> IntV(ByteLen(v.s))]
    ELSE IF v.t = "map"
    THEN [err |-> FALSE, val |-> IntV(Cardinality(DOMAIN vars))]
    ELSE [err |-> TRUE]

\* the call of a builtin function on the values of its operands
CallBuiltin(name, vals, vars) ==
    LET Order(l) ==
            CASE name = <<"l", "t">> -> l
              [] name = <<"l", "e">> -> Le(l, vals[1], vals[2])
              [] name = <<"g", "t">> -> Negate(Le(l, vals[1], vals[2]))
              [] name = <<"g", "e">> -> Negate(l)
        Equal(e) == IF name = <<"e", "q">> THEN e ELSE Negate(e)
    IN  CASE name = <<"p", "r", "i", "n", "t">> ->
                [err |-> FALSE, val |-> StrV(Sprint(vals, 1, vars))]
          [] name = <<"p", "r", "i", "n", "t", "l", "n">> ->
                [err |-> FALSE, val |-> StrV(Sprintln(vals, 1, vars))]
          [] name = <<"p", "r", "i", "n", "t", "f">> ->
                [err |-> FALSE,
                 val |-> StrV(Sprintf(vals[1].s, 1, vals, 2, vars))]
          [] name = <<"n", "o", "t">> ->
                [err |-> FALSE, val |-> BoolV(~Truth(vals[1], vars))]
          [] name = <<"l", "e", "n">> -> LenValue(vals[1], vars)
          [] name = <<"i", "n", "d", "e", "x">> -> IndexValue(vals, vars)
          [] name \in {<<"e", "q">>, <<"n", "e">>} -> Equal(Eq(vals))
          [] name \in {<<"l", "t">>, <<"l", "e">>, <<"g", "t">>, <<"g", "e">>} ->
                Order(Lt(vals[1], vals[2]))
          [] OTHER ->
                NotModelled("the functions html, js, urlquery, slice and call")

\* the number of operands a builtin takes: at least min, at most max
\* (-1: any number)
Arity(name) ==
    CASE name \in {<<"p", "r", "i", "n", "t">>, <<"p", "r", "i", "n", "t", "l", "n">>, <<"h", "t", "m", "l">>, <<"j", "s">>,
                   <<"u", "r", "l", "q", "u", "e", "r", "y">>} -> [min |-> 0, max |-> -1]
      [] name \in {<<"p", "r", "i", "n", "t", "f">>, <<"a", "n", "d">>, <<"o", "r">>, <<"i", "n", "d", "e", "x">>, <<"s", "l", "i", "c", "e">>,
                   <<"e", "q">>, <<"c", "a", "l", "l">>} -> [min |-> 1, max |-> -1]
      [] name \in {<<"n", "o", "t">>, <<"l", "e", "n">>} -> [min |-> 1, max |-> 1]
      [] OTHER -> [min |-> 2, max |-> 2]

\* the type of the k-th parameter of a builtin: interface{} ("any"),
\* string, or reflect.Value ("value")
ParamType(name, k) ==
    IF name \in {<<"p", "r", "i", "n", "t">>, <<"p", "r", "i", "n", "t", "l", "n">>, <<"h", "t", "m", "l">>, <<"j", "s">>, <<"u", "r", "l", "q", "u", "e", "r", "y">>}
    THEN "any"
    ELSE IF name = <<"p", "r", "i", "n", "t", "f">> THEN IF k = 1 THEN "string" ELSE "any"
    ELSE "value"

\* validateType: a value handed to a parameter.  No value becomes the nil
\* interface for interface{}, stays no value for reflect.Value, and is an
\* error for string
ValidateType(v, typ) ==
    IF v.t \in {"none", "nil"}
    THEN IF typ = "any" THEN [err |-> FALSE, val |-> NilV]
         ELSE IF typ = "value" THEN [err |-> FALSE, val |-> NoV]
         ELSE [err |-> TRUE]
    ELSE IF typ = "string" /\ v.t # "str" THEN [err |-> TRUE]
    ELSE [err |-> FALSE, val |-> v]

\* evalField: a field of a receiver.  A key the map lacks yields no value
\* (no missingkey=error option), and so does any field of no value; a field
\* of the map given operands, and a field of anything else, is an error
EvalField(recv, name, hasArgs, vars) ==
    IF recv.t = "none" THEN [err |-> FALSE, val |-> NoV]
    ELSE IF recv.t # "map" \/ hasArgs THEN [err |-> TRUE]
    ELSE IF name \in DOMAIN vars THEN [err |-> FALSE, val |-> StrV(vars[name])]
    ELSE [err |-> FALSE, val |-> NoV]

\* evalFieldChain: the operands go to the last field
RECURSIVE EvalFieldChain(_, _, _, _, _)
EvalFieldChain(recv, chain, i, hasArgs, vars) ==
    LET Field(r) == IF r.err THEN r
                    ELSE EvalFieldChain(r.val, chain, i + 1, hasArgs, vars)
    IN  IF i > Len(chain) THEN [err |-> FALSE, val |-> recv]
        ELSE Field(EvalField(recv, chain[i], hasArgs /\ i = Len(chain), vars))

\* the variables of an execution: a stack of names with their values
RECURSIVE VarIndex(_, _, _)
VarIndex(st, name, i) ==
    IF i = 0 THEN 0
    ELSE IF st[i].name = name THEN i
    ELSE VarIndex(st, name, i - 1)

\* The evaluation of pipelines.  env holds the map (vars), the dot and the
\* variables (st); every operator answers err = TRUE, or the value and the
\* variables after it
Failed == [err |-> TRUE]

RECURSIVE EvalPipeline(_, _), EvalCmds(_, _, _, _, _),
          EvalCommand(_, _, _, _), EvalArg(_, _, _), EvalArgs(_, _, _, _, _),
          EvalFunction(_, _, _, _, _), EvalShortCircuit(_, _, _, _, _, _),
          Walk(_, _, _)

\* evalArg: the operand n for a parameter of type typ.  The dot, a field,
\* a variable, a chain and a function are evaluated as the command of that
\* one operand without a final value (evalFieldNode, evalVariableNode,
\* evalChainNode and evalFunction with no further operands)
EvalArg(n, typ, env) ==
    LET Checked(r, v) == IF v.err THEN Failed
                         ELSE [err |-> FALSE, val |-> v.val, st |-> r.st]
        Typed(r) == IF r.err THEN Failed
                    ELSE Checked(r, ValidateType(r.val, typ))
    IN  CASE n.kind = "nil" ->
                Typed([err |-> FALSE, val |-> NilV, st |-> env.st])
          [] n.kind = "pipe" -> Typed(EvalPipeline(n, env))
          [] n.kind \in {"dot", "field", "var", "ident", "chain"} ->
                Typed(EvalCommand(<<n>>, FALSE, NoV, env))
          [] OTHER ->
                IF typ = "string" /\ n.kind # "str" THEN Failed
                ELSE [err |-> FALSE, val |-> n.val, st |-> env.st]

\* the operands of a call from the i-th on, each for its parameter
EvalArgs(name, args, i, env, vals) ==
    LET Arg(r) == IF r.err THEN Failed
                  ELSE EvalArgs(name, args, i + 1, [env EXCEPT !.st = r.st],
                                Append(vals, r.val))
    IN  IF i > Len(args) THEN [err |-> FALSE, vals |-> vals, st |-> env.st]
        ELSE Arg(EvalArg(args[i], ParamType(name, i), env))

\* and, or: the operands in turn, up to the first that decides
EvalShortCircuit(name, args, i, env, hasFinal, final) ==
    LET Arg(r) ==
            IF r.err THEN Failed
            ELSE IF Truth(r.val, env.vars) = (name = <<"o", "r">>) THEN r
            ELSE IF i = Len(args) /\ ~hasFinal THEN r
            ELSE EvalShortCircuit(name, args, i + 1,
                                  [env EXCEPT !.st = r.st], hasFinal, final)
    IN  IF i > Len(args)
        THEN [err |-> FALSE, val |-> final, st |-> env.st]
        ELSE Arg(EvalArg(args[i], "value", env))

\* evalFunction and evalCall: the number of operands is checked, the
\* operands are evaluated, the value of the pipeline so far (final) is the
\* last operand
EvalFunction(name, args, hasFinal, final, env) ==
    LET numIn == Len(args) + (IF hasFinal THEN 1 ELSE 0)
        a     == Arity(name)
        r     == EvalArgs(name, args, 1, env, <<>>)
        f     == ValidateType(final, ParamType(name, numIn))
        Called(c) == IF c.err THEN Failed
                     ELSE [err |-> FALSE, val |-> c.val, st |-> r.st]
    IN  IF numIn < a.min \/ (a.max # -1 /\ numIn > a.max) THEN Failed
        ELSE IF name \in {<<"a", "n", "d">>, <<"o", "r">>}
        THEN EvalShortCircuit(name, args, 1, env, hasFinal, final)
        ELSE IF r.err THEN Failed
        ELSE IF hasFinal /\ f.err THEN Failed
        ELSE Called(CallBuiltin(name,
                                IF hasFinal THEN Append(r.vals, f.val)
                                ELSE r.vals,
                                env.vars))

\* evalCommand: by the first operand of the command.  Only a function and
\* a method take operands
EvalCommand(args, hasFinal, final, env) ==
    LET first   == args[1]
        hasArgs == Len(args) > 1 \/ hasFinal
        Here(r) == IF r.err THEN Failed
                   ELSE [err |-> FALSE, val |-> r.val, st |-> env.st]
        Chain(base) ==
            IF base.err THEN Failed
            ELSE EvalFieldChain(base.val, first.chain, 1, hasArgs, env.vars)
                 @@ [st |-> base.st]
        Var(x) ==
            IF x = 0 THEN Failed
            ELSE IF Len(first.chain) = 1 /\ hasArgs THEN Failed
            ELSE Here(EvalFieldChain(env.st[x].val, first.chain, 2, hasArgs,
                                     env.vars))
    IN  CASE first.kind = "field" ->
                Here(EvalFieldChain(env.dot, first.chain, 1, hasArgs, env.vars))
          [] first.kind = "chain" ->
                IF first.node.kind = "nil" THEN Failed
                ELSE Chain(EvalArg(first.node, "value", env))
          [] first.kind = "ident" ->
                EvalFunction(first.val, Tail(args), hasFinal, final, env)
          [] first.kind = "pipe" ->
                IF hasArgs THEN Failed ELSE EvalPipeline(first, env)
          [] first.kind = "var" ->
                Var(VarIndex(env.st, first.chain[1], Len(env.st)))
          [] first.kind = "nil" -> Failed
          [] first.kind = "dot" ->
                IF hasArgs THEN Failed
                ELSE [err |-> FALSE, val |-> env.dot, st |-> env.st]
          [] OTHER ->
                IF hasArgs THEN Failed
                ELSE [err |-> FALSE, val |-> first.val, st |-> env.st]

\* the commands of a pipeline from the i-th on, each given the value of
\* the one before it
EvalCmds(cmds, i, hasFinal, final, env) ==
    LET Cmd(r) == IF r.err THEN Failed
                  ELSE EvalCmds(cmds, i + 1, TRUE, r.val,
                                [env EXCEPT !.st = r.st])
    IN  IF i > Len(cmds) THEN [err |-> FALSE, val |-> final, st |-> env.st]
        ELSE Cmd(EvalCommand(cmds[i], hasFinal, final, env))

\* evalPipeline: the commands, then the variable the pipeline declares or
\* assigns
EvalPipeline(pipe, env) ==
    LET Assigned(r, x) ==
            IF x = 0 THEN Failed
            ELSE [r EXCEPT !.st = [r.st EXCEPT ![x].val = r.val]]
        Value(r) ==
            IF r.err THEN Failed
            ELSE IF pipe.decl = <<>> THEN r
            ELSE IF Len(pipe.decl) > 1
            THEN [r EXCEPT !.st = r.st
                               \o <<[name |-> pipe.decl[1], val |-> r.val],
                                    [name |-> pipe.decl[2], val |-> r.val]>>]
            ELSE IF ~pipe.assign
            THEN [r EXCEPT !.st = Append(r.st, [name |-> pipe.decl[1],
                                                val |-> r.val])]
            ELSE Assigned(r, VarIndex(r.st, pipe.decl[1], Len(r.st)))
    IN  Value(EvalCmds(pipe.cmds, 1, FALSE, NoV, env))

\* the escaper an action was given, applied to the value of its pipeline;
\* no value is printed as the empty string
PrintValue(n, v, vars) ==
    LET Escaped(text) ==
            IF n.pipe.decl # <<>> \/ n.esc = "comment" THEN <<>>
            ELSE IF n.esc = "name" THEN HTMLNameFilter(text)
            ELSE HTMLEscape(text)
    IN  Escaped(IF v.t \in {"none", "nil"} THEN <<>> ELSE FormatValue(v, vars))

\* walkRange over the map: the body once for each key in order, the dot
\* being the value; the variables of the action take the key and the
\* value.  Each iteration starts on the variables the one before it left,
\* cut back to the mark (the stack after the pipeline)
RECURSIVE WalkRange(_, _, _, _)
WalkRange(n, keys, i, env) ==
    LET d    == Len(n.pipe.decl)
        m    == Len(env.st)
        elem == StrV(env.vars[keys[i]])
        st1  == IF d = 0 THEN env.st
                ELSE IF d = 1 THEN [env.st EXCEPT ![m].val = elem]
                ELSE [env.st EXCEPT ![m].val = elem, ![m - 1].val = StrV(keys[i])]
        Rest(body, rest) ==
            IF rest.err THEN [err |-> TRUE, out |-> <<>>, st |-> env.st]
            ELSE [err |-> FALSE, out |-> body.out \o rest.out, st |-> rest.st]
        After(body) ==
            IF body.err THEN [err |-> TRUE, out |-> <<>>, st |-> env.st]
            ELSE Rest(body, WalkRange(n, keys, i + 1,
                                      [env EXCEPT !.st = SubSeq(body.st, 1, m)]))
    IN  IF i > Len(keys) THEN [err |-> FALSE, out |-> <<>>, st |-> env.st]
        ELSE After(Walk(n.list, 1, [env EXCEPT !.dot = elem, !.st = st1]))

\* walk: the output of a node list from node i on, and the variables after
\* it.  if, with and range cut the variables back to the mark taken before
\* the pipeline (pop): what the branch declared goes, what it assigned to
\* an outer variable stays
Walk(list, i, env) ==
    LET n == list[i]
        Pop(w) == IF w.err THEN w
                  ELSE [w EXCEPT !.st = SubSeq(w.st, 1, Len(env.st))]
        Branch(p, true) ==
            Pop(Walk(IF true THEN n.list ELSE n.elseList, 1,
                     IF true /\ n.kind = "with"
                     THEN [env EXCEPT !.st = p.st, !.dot = p.val]
                     ELSE [env EXCEPT !.st = p.st]))
        Range(p, keys) ==
            IF n.pipe.assign THEN NotModelled("range with an assignment")
            ELSE IF p.val.t \in {"str", "int"}
            THEN NotModelled("range over a string or a number")
            ELSE IF p.val.t \in {"bool", "float"} THEN Failed
            ELSE IF p.val.t = "map" /\ keys # <<>>
            THEN Pop(WalkRange(n, keys, 1, [env EXCEPT !.st = p.st]))
            ELSE Pop(Walk(n.elseList, 1, [env EXCEPT !.st = p.st]))
        Piped(p) ==
            IF p.err THEN Failed
            ELSE IF n.kind = "action"
            THEN [err |-> FALSE, st |-> p.st,
                  out |-> PrintValue(n, p.val, env.vars)]
            ELSE IF n.kind \in {"if", "with"}
            THEN Branch(p, Truth(p.val, env.vars))
            ELSE Range(p, SortedKeys(DOMAIN env.vars))
        Rest(one, rest) ==
            IF rest.err THEN [err |-> TRUE, out |-> <<>>, st |-> env.st]
            ELSE [err |-> FALSE, out |-> one.out \o rest.out, st |-> rest.st]
        After(one) ==
            IF one.err THEN [err |-> TRUE, out |-> <<>>, st |-> env.st]
            ELSE Rest(one, Walk(list, i + 1, [env EXCEPT !.st = one.st]))
    IN  IF i > Len(list) THEN [err |-> FALSE, out |-> <<>>, st |-> env.st]
        ELSE IF n.kind = "text"
        THEN After([err |-> FALSE, out |-> n.val, st |-> env.st])
        ELSE After(Piped(EvalPipeline(n.pipe, env)))

\* tmpl.Execute: the escaper's pass over the whole tree, then the walk with
\* the map as the dot and as $.  A template the escaper rejects, one that
\* ends outside text ("ends in a non-text context") and an action that
\* fails are errors
Execute(nodes, vars) ==
    LET Walked(w) == IF w.err THEN [out |-> <<>>, err |-> TRUE]
                     ELSE [out |-> w.out, err |-> FALSE]
    IN  IF EscapeList(TextCtx, nodes, 1).ctx.state # "text"
        THEN [out |-> <<>>, err |-> TRUE]
        ELSE Walked(Walk(EscapeList(TextCtx, nodes, 1).list, 1,
                         [vars |-> vars, dot |-> MapV,
                          st |-> <<[name |-> <<"$">>, val |-> MapV]>>]))

evaluateFromTemplate(fromTemplate, vars) ==
    LET Executed(r) == IF r.err THEN [val |-> <<>>, err |-> TRUE]
                       ELSE [val |-> r.out, err |-> FALSE]
    IN  IF ~Parse(fromTemplate).ok THEN [val |-> <<>>, err |-> TRUE]
        ELSE Executed(Execute(Parse(fromTemplate).nodes, vars))

(***************************************************************************)
(* Archive type classifier.                                                *)
(***************************************************************************)
TarGz == 0
Zip == 1
NoType == -1

\* variant: the suffixes are tested against the URL as it is written
getArchiveType_CaseSensitive(url) ==
    LET u == url
    IN  IF \/ HasSuffix(u, <<".", "t", "a", "r", ".", "g", "z">>)
           \/ HasSuffix(u, <<".", "t", "g", "z">>)
        THEN [type |-> TarGz, err |-> FALSE]
        ELSE IF HasSuffix(u, <<".", "z", "i", "p">>)
        THEN [type |-> Zip, err |-> FALSE]
        ELSE [type |-> NoType, err |-> TRUE]

getArchiveType(url) ==
    LET u == ToLower(url)
    IN  IF \/ HasSuffix(u, <<".", "t", "a", "r", ".", "g", "z">>)
           \/ HasSuffix(u, <<".", "t", "g", "z">>)
        THEN [type |-> TarGz, err |-> FALSE]
        ELSE IF HasSuffix(u, <<".", "z", "i", "p">>)
        THEN [type |-> Zip, err |-> FALSE]
        ELSE [type |-> NoType, err |-> TRUE]

(***************************************************************************)
(* The destination file system and the materializer.                       *)
(*   fs.dirs  : the directories that exist                                 *)
(*   fs.files : path -> [content, mode] of the regular files that exist    *)
(***************************************************************************)
Mode0755 == 493

RECURSIVE Pow2(_)
Pow2(n) == IF n = 0 THEN 1 ELSE 2 * Pow2(n - 1)

Bit(m, i) == (m \div Pow2(i)) % 2

RECURSIVE SumBits(_, _, _)
SumBits(m, mask, i) ==
    IF i > 8 THEN 0
    ELSE (IF Bit(m, i) = 1 /\ Bit(mask, i) = 0 THEN Pow2(i) ELSE 0)
         + SumBits(m, mask, i + 1)

\* perm &^ umask, the mode open(2) gives a file it creates
AndNot(perm, mask) == SumBits(perm, mask, 0)

\* os.OpenFile(outPath, O_WRONLY|O_CREATE, perm): no O_TRUNC and no O_EXCL,
\* so a file that exists is opened as it is, content and mode unchanged
OpenFile(fsys, outPath, perm, mask) ==
    IF outPath \in fsys.dirs THEN [err |-> TRUE, fs |-> fsys]
    ELSE IF outPath \in DOMAIN fsys.files THEN [err |-> FALSE, fs |-> fsys]
    ELSE IF Dir(outPath) \notin fsys.dirs THEN [err |-> TRUE, fs |-> fsys]
    ELSE [err |-> FALSE,
          fs  |-> [fsys EXCEPT !.files =
                     (outPath :> [content |-> <<>>, mode |-> AndNot(perm, mask)])
                     @@ fsys.files]]

Min(a, b) == IF a < b THEN a ELSE b

\* io.Copy(file, reader) into a file opened at offset 0: the n bytes that get
\* through overwrite the start of the file, what lay beyond them stays
CopyInto(old, data, n) ==
    SubSeq(data, 1, n) \o SubSeq(old, n + 1, Len(old))

\* what io.Copy returns: n is the number of bytes that get through before
\* the reader or the disk fails, which is an error; when all of them get
\* through (n >= Len(data)) the reader ends with io.EOF, no error, or with
\* an error of its own (endErr: zip's checksum error comes with the end,
\* and so does the error of a gzip stream cut off where the entry ends)
Copy(old, data, n, endErr) ==
    [content |-> CopyInto(old, data, Min(n, Len(data))),
     err     |-> n < Len(data) \/ endErr]

\* extractExe: the file is opened, the entry is copied into it and the
\* error of the copy, if any, is returned
extractExe(data, filename, to, fileInfo, fsys, mask, n, endErr) ==
    LET outPath == Join(to, Base(filename))
        opened  == OpenFile(fsys, outPath, Mode0755, mask)
        copied  == Copy(opened.fs.files[outPath].content, data, n, endErr)
        written == [opened.fs EXCEPT !.files[outPath].content = copied.content]
    IN  IF opened.err
        THEN [outPath |-> <<>>, err |-> "create", fs |-> fsys,
              crashed |-> FALSE, handle |-> "none"]
        ELSE IF copied.err
        THEN [outPath |-> <<>>, err |-> "copy", fs |-> written,
              crashed |-> FALSE, handle |-> "closed"]
        ELSE [outPath |-> outPath, err |-> "none", fs |-> written,
              crashed |-> FALSE, handle |-> "closed"]

(***************************************************************************)
(* Extraction engine.  A response body is                                  *)
(*   format  : "targz", "zip" or "junk" (neither envelope)                 *)
(*   entries : the entries in archive order, each [name, mode, content]    *)
(*   tail    : "eof" when the container ends cleanly after the entries,    *)
(*             "err" when it is truncated or corrupt from there on         *)
(***************************************************************************)
Result(outPath, err, fsys, crashed, handle) ==
    [outPath |-> outPath, err |-> err, fs |-> fsys,
     crashed |-> crashed, handle |-> handle]

\* the loop of processTarGz from entry i on.  tarReader.Next() returns a nil
\* header with every error; only io.EOF is tested, so any other error goes on
\* to header.Name, a nil dereference that panics
\* variant: the end of the archive is not reported as an error
RECURSIVE TarScan_EmptySuccess(_, _, _, _, _, _, _, _)
TarScan_EmptySuccess(body, i, file, to, fsys, mask, n, endErr) ==
    IF i > Len(body.entries)
    THEN IF body.tail = "eof"
         THEN Result(<<>>, "none", fsys, FALSE, "none")
         ELSE Result(<<>>, "none", fsys, TRUE, "none")
    ELSE IF body.entries[i].name = file
    THEN extractExe(body.entries[i].content, file, to, body.entries[i].mode,
                    fsys, mask, n, endErr)
    ELSE TarScan_EmptySuccess(body, i + 1, file, to, fsys, mask, n, endErr)

RECURSIVE TarScan(_, _, _, _, _, _, _, _)
TarScan(body, i, file, to, fsys, mask, n, endErr) ==
    IF i > Len(body.entries)
    THEN IF body.tail = "eof"
         THEN Result(<<>>, "notfound", fsys, FALSE, "none")
         ELSE Result(<<>>, "none", fsys, TRUE, "none")
    ELSE IF body.entries[i].name = file
    THEN extractExe(body.entries[i].content, file, to, body.entries[i].mode,
                    fsys, mask, n, endErr)
    ELSE TarScan(body, i + 1, file, to, fsys, mask, n, endErr)

processTarGz(body, file, to, fsys, mask, n, endErr) ==
    IF body.format # "targz"
    THEN Result(<<>>, "gzip", fsys, FALSE, "none")
    ELSE TarScan(body, 1, file, to, fsys, mask, n, endErr)

\* extractExeFromZip: the entry is opened, then handed to extractExe
extractExeFromZip(entry, filename, to, fsys, mask, n, endErr, openOk) ==
    IF ~openOk
    THEN Result(<<>>, "zipopen", fsys, FALSE, "none")
    ELSE extractExe(entry.content, filename, to, entry.mode, fsys, mask, n, endErr)

\* variant: an entry of the requested name is passed over while a later
\* entry has that name too
RECURSIVE ZipScan_LastMatch(_, _, _, _, _, _, _, _, _)
ZipScan_LastMatch(body, i, file, to, fsys, mask, n, endErr, openOk) ==
    IF i > Len(body.entries)
    THEN Result(<<>>, "notfound", fsys, FALSE, "none")
    ELSE IF /\ body.entries[i].name = file
            /\ \A j \in (i + 1)..Len(body.entries) : body.entries[j].name # file
    THEN extractExeFromZip(body.entries[i], file, to, fsys, mask, n, endErr, openOk)
    ELSE ZipScan_LastMatch(body, i + 1, file, to, fsys, mask, n, endErr, openOk)

RECURSIVE ZipScan(_, _, _, _, _, _, _, _, _)
ZipScan(body, i, file, to, fsys, mask, n, endErr, openOk) ==
    IF i > Len(body.entries)
    THEN Result(<<>>, "notfound", fsys, FALSE, "none")
    ELSE IF body.entries[i].name = file
    THEN extractExeFromZip(body.entries[i], file, to, fsys, mask, n, endErr, openOk)
    ELSE ZipScan(body, i + 1, file, to, fsys, mask, n, endErr, openOk)

\* processZip: the whole body is read, zip.NewReader needs the central
\* directory at its end, then the directory is searched in order
processZip(body, file, to, fsys, mask, n, endErr, openOk) ==
    IF body.format # "zip" \/ body.tail # "eof"
    THEN Result(<<>>, "zipcontent", fsys, FALSE, "none")
    ELSE ZipScan(body, 1, file, to, fsys, mask, n, endErr, openOk)

processArchive(t, body, file, to, fsys, mask, n, endErr, openOk) ==
    IF t = TarGz THEN processTarGz(body, file, to, fsys, mask, n, endErr)
    ELSE IF t = Zip THEN processZip(body, file, to, fsys, mask, n, endErr, openOk)
    ELSE Result(<<>>, "invalidtype", fsys, FALSE, "none")

\* the error values that report an unreadable envelope or container
FormatErrors == {"gzip", "zipcontent", "zipopen"}

(***************************************************************************)
(* Inputs.                                                                 *)
(***************************************************************************)
S_app == <<"a", "p", "p">>
S_APP == <<"A", "P", "P">>
S_binapp == <<"b", "i", "n", "/", "a", "p", "p">>
S_v == <<"v">>
S_os == <<"o", "s">>
S_arch == <<"a", "r", "c", "h">>
S_to == <<"/", "o">>
S_root == <<"/">>

T_txt == <<"a", ".", "t", "x", "t">>
T_vzip == <<"{", "{", " ", ".", "v", " ", "}", "}", ".", "z", "i", "p">>
T_ostgz == <<"a", "{", "{", ".", "o", "s", "}", "}", ".", "t", "g", "z">>
T_open == <<"a", "{", "{", ".", "v">>
T_v == <<"{", "{", ".", "v", "}", "}">>
\* a<1.txt, <a, {{- .v_1 -}}.txt, {{.}}.txt, {{.v.os}}.txt
T_lt == <<"a", "<", "1", ".", "t", "x", "t">>
T_tag == <<"<", "a">>
T_trim == <<"{", "{", "-", " ", ".", "v", "_", "1", " ", "-", "}", "}",
            ".", "t", "x", "t">>
T_dot == <<"{", "{", ".", "}", "}", ".", "t", "x", "t">>
T_chain == <<"{", "{", ".", "v", ".", "o", "s", "}", "}", ".", "t", "x", "t">>
\* {{print .v}}.zip, {{if .v}}a{{end}}.zip
T_print == <<"{", "{", "p", "r", "i", "n", "t", " ", ".", "v", "}", "}",
             ".", "z", "i", "p">>
T_if == <<"{", "{", "i", "f", " ", ".", "v", "}", "}", "a",
          "{", "{", "e", "n", "d", "}", "}", ".", "z", "i", "p">>

FromTemplates ==
    {<<>>, T_txt, T_vzip, T_ostgz, T_open, T_lt, T_tag, T_trim, T_dot,
     T_chain, T_print, T_if}
FileTemplates == {<<>>, S_app, S_binapp, T_v, T_open}

NoVars == <<>>
VarSets == {NoVars,
            (S_v :> S_app),
            (S_v :> S_APP) @@ (S_os :> <<"x", "&">>)}

Invocations ==
    [From : FromTemplates, File : FileTemplates, Var : VarSets,
     To : {S_to}, Mkdirs : BOOLEAN, Version : BOOLEAN]

Names == {S_app, S_binapp, S_APP}

\* what an entry carries: permission mode (0755 = 493, 0644 = 420) and bytes
Payloads ==
    {[mode |-> 493, content |-> <<1>>],
     [mode |-> 420, content |-> <<1>>],
     [mode |-> 493, content |-> <<2, 2>>]}

\* what a file already at the output path holds: shorter and longer contents
OldContents == {<<9>>, <<9, 9, 9>>}

RECURSIVE SeqsUpTo(_, _)
SeqsUpTo(S, n) ==
    IF n = 0 THEN {<<>>}
    ELSE LET shorter == SeqsUpTo(S, n - 1)
         IN  shorter \cup {Append(q, x) : q \in shorter, x \in S}

Entries ==
    {[name |-> nm, mode |-> pl.mode, content |-> pl.content] :
        nm \in Names, pl \in Payloads}
Archives == SeqsUpTo(Entries, MaxEntries)

JunkBody == [format |-> "junk", entries |-> <<>>, tail |-> "err"]
Bodies ==
    [format : {"targz"}, entries : Archives, tail : {"eof", "err"}]
    \cup [format : {"zip"}, entries : Archives, tail : {"eof"}]
    \cup {JunkBody}

Statuses == {200, 204, 404}
Umask == 18

OutApp == Join(S_to, S_app)

OldFile(c) == (OutApp :> [content |-> c, mode |-> 384])

FileSystems ==
    {[dirs |-> {S_root}, files |-> <<>>],
     [dirs |-> {S_root, S_to}, files |-> <<>>]}
    \cup {[dirs |-> {S_root, S_to}, files |-> OldFile(c)] :
             c \in OldContents}

(***************************************************************************)
(* The run of main.                                                        *)
(***************************************************************************)
VARIABLES
    args,         \* the parsed flags
    pc,           \* position in main
    from,         \* the resolved source URL
    file,         \* the resolved entry path
    archiveType,  \* result of getArchiveType
    fs,           \* the file system
    resp,         \* the HTTP response, once there is one
    requests,     \* number of calls of client.Get (a call sends one GET
                  \* for the URL and one for each redirect it follows)
    exit,         \* exit status of the process, -1 while it runs
    crashed,      \* the process ended in a panic
    err,          \* the error processArchive returned ("none": no error)
    outPath,      \* the path processArchive returned
    bodyClosed,   \* resp.Body.Close() has run
    handle,       \* the destination file handle: "none", "open", "closed"
    steps         \* the steps of main taken so far, in order

vars == <<args, pc, from, file, archiveType, fs, resp, requests, exit,
          crashed, err, outPath, bodyClosed, handle, steps>>

\* a body of which nothing has been read
NoBody == [format |-> "unread", entries |-> <<>>, tail |-> "eof"]
NoResp == [status |-> 0, body |-> NoBody]

InitRun ==
    /\ pc = "parse"
    /\ from = <<>>
    /\ file = <<>>
    /\ archiveType = NoType
    /\ resp = NoResp
    /\ requests = 0
    /\ exit = -1
    /\ crashed = FALSE
    /\ err = "none"
    /\ outPath = <<>>
    /\ bodyClosed = FALSE
    /\ handle = "none"
    /\ steps = <<>>

Init ==
    /\ args \in Invocations
    /\ fs \in FileSystems
    /\ InitRun

\* os.Exit(code), directly or through log.Fatal: deferred calls do not run
Exit(code) ==
    /\ pc' = "done"
    /\ exit' = code

\* what the command line is to package flag: one it accepts, one it
\* rejects, one that asks for the usage (-h, -help)
CommandLines == {"accepted", "rejected", "help"}

\* flagsfiller.Parse: the flags are defined from the struct and the command
\* line is parsed by flag.CommandLine, whose error handling is ExitOnError:
\* inside the call a rejected command line ends the process with status 2
\* and a request for the usage with status 0.  Parse returns an error only
\* for a struct it cannot turn into flags, which args is not, so that main
\* goes on whenever the call returns
ParseArgs ==
    /\ pc = "parse"
    /\ steps' = Append(steps, "parse")
    /\ \E line \in CommandLines :
          IF line = "accepted" THEN pc' = "version" /\ exit' = exit
          ELSE IF line = "rejected" THEN Exit(2)
          ELSE Exit(0)
    /\ UNCHANGED <<args, from, file, archiveType, fs, resp, requests,
                   crashed, err, outPath, bodyClosed, handle>>

\* --version: print and return from main
ShowVersion ==
    /\ pc = "version"
    /\ steps' = Append(steps, "version")
    /\ IF args.Version THEN Exit(0)
       ELSE pc' = "required" /\ exit' = exit
    /\ UNCHANGED <<args, from, file, archiveType, fs, resp, requests,
                   crashed, err, outPath, bodyClosed, handle>>

CheckRequired ==
    /\ pc = "required"
    /\ steps' = Append(steps, "required")
    /\ IF args.From = <<>> \/ args.File = <<>> THEN Exit(2)
       ELSE pc' = "evalFrom" /\ exit' = exit
    /\ UNCHANGED <<args, from, file, archiveType, fs, resp, requests,
                   crashed, err, outPath, bodyClosed, handle>>

EvalFrom ==
    /\ pc = "evalFrom"
    /\ steps' = Append(steps, "evalFrom")
    /\ LET Evaluated(r) ==
               IF r.err THEN Exit(1) /\ from' = from
               ELSE pc' = "evalFile" /\ exit' = exit /\ from' = r.val
       IN  Evaluated(evaluateFromTemplate(args.From, args.Var))
    /\ UNCHANGED <<args, file, archiveType, fs, resp, requests,
                   crashed, err, outPath, bodyClosed, handle>>

EvalFile ==
    /\ pc = "evalFile"
    /\ steps' = Append(steps, "evalFile")
    /\ LET Evaluated(r) ==
               IF r.err THEN Exit(1) /\ file' = file
               ELSE pc' = "classify" /\ exit' = exit /\ file' = r.val
       IN  Evaluated(evaluateFromTemplate(args.File, args.Var))
    /\ UNCHANGED <<args, from, archiveType, fs, resp, requests,
                   crashed, err, outPath, bodyClosed, handle>>

\* variant: the classification error is not acted on
Classify_IgnoreError ==
    /\ pc = "classify"
    /\ steps' = Append(steps, "classify")
    /\ archiveType' = getArchiveType(from).type
    /\ pc' = "mkdirs" /\ exit' = exit
    /\ UNCHANGED <<args, from, file, fs, resp, requests,
                   crashed, err, outPath, bodyClosed, handle>>

Classify ==
    /\ pc = "classify"
    /\ steps' = Append(steps, "classify")
    /\ LET r == getArchiveType(from)
       IN  /\ archiveType' = r.type
           /\ IF r.err THEN Exit(1)
              ELSE pc' = "mkdirs" /\ exit' = exit
    /\ UNCHANGED <<args, from, file, fs, resp, requests,
                   crashed, err, outPath, bodyClosed, handle>>

\* the directories os.MkdirAll(p) makes sure exist
RECURSIVE Ancestors(_)
Ancestors(p) ==
    IF p = <<"/">> \/ p = <<".">> THEN {p}
    ELSE {p} \cup Ancestors(Dir(p))

\* --mkdirs: os.MkdirAll(args.To, 0755), which the system may refuse
MakeDirs ==
    /\ pc = "mkdirs"
    /\ steps' = Append(steps, "mkdirs")
    /\ IF args.Mkdirs
       THEN \E ok \in BOOLEAN :
               IF ok
               THEN /\ fs' = [fs EXCEPT !.dirs = @ \cup Ancestors(Clean(args.To))]
                    /\ pc' = "client" /\ exit' = exit
               ELSE fs' = fs /\ Exit(1)
       ELSE fs' = fs /\ pc' = "client" /\ exit' = exit
    /\ UNCHANGED <<args, from, file, archiveType, resp, requests,
                   crashed, err, outPath, bodyClosed, handle>>

\* setupHttpClient: fails when an embedded certificate cannot be added
SetupClient ==
    /\ pc = "client"
    /\ steps' = Append(steps, "client")
    /\ \E ok \in BOOLEAN :
          IF ok THEN pc' = "get" /\ exit' = exit
          ELSE Exit(1)
    /\ UNCHANGED <<args, from, file, archiveType, fs, resp, requests,
                   crashed, err, outPath, bodyClosed, handle>>

\* client.Get(from): a connection error, or the response that ends the
\* redirects the client followed, of any status.  Get returns when the
\* status line and headers are in; the body is a stream that is read only
\* by whoever processes it
Get ==
    /\ pc = "get"
    /\ steps' = Append(steps, "get")
    /\ requests' = requests + 1
    /\ \/ Exit(1) /\ resp' = resp
       \/ \E code \in Statuses :
             /\ resp' = [status |-> code, body |-> NoBody]
             /\ pc' = "response" /\ exit' = exit
    /\ UNCHANGED <<args, from, file, archiveType, fs,
                   crashed, err, outPath, bodyClosed, handle>>

\* how far io.Copy can get: it stops after 0 bytes, after as many bytes as
\* some content has, or not at all
CopyProgress == {0} \cup {Len(pl.content) : pl \in Payloads}

\* what the environment does to an extraction: the zip entry cannot be
\* opened, or it can and the copy gets n bytes far; an entry that is read
\* to its end can still end in an error (a zip entry whose checksum is
\* wrong, a gzip stream that is cut off where the entry ends)
Faults ==
    {[openOk |-> FALSE, n |-> 0, endErr |-> FALSE]}
    \cup {[openOk |-> TRUE, n |-> k, endErr |-> e] :
             k \in CopyProgress, e \in BOOLEAN}

\* the test main applies to resp.StatusCode
StatusOK(code) == code = 200

\* the response is handled: extraction for an accepted status (the body
\* the server streams is read by processArchive), log.Fatalf otherwise.  A
\* return from main and a panic run the deferred resp.Body.Close();
\* log.Fatalf exits without running it.  A Go panic ends the process with
\* status 2.
HandleResponse ==
    /\ pc = "response"
    /\ IF StatusOK(resp.status)
       THEN \E body \in Bodies, fault \in Faults :
               \E r \in {processArchive(archiveType, body, file, args.To,
                                        fs, Umask, fault.n, fault.endErr,
                                        fault.openOk)} :
                   /\ steps' = steps \o <<"response", "process">>
                   /\ resp' = [resp EXCEPT !.body = body]
                   /\ fs' = r.fs
                   /\ err' = r.err
                   /\ outPath' = r.outPath
                   /\ crashed' = r.crashed
                   /\ handle' = r.handle
                   /\ IF r.crashed THEN Exit(2) /\ bodyClosed' = TRUE
                      ELSE IF r.err # "none" THEN Exit(1) /\ bodyClosed' = FALSE
                      ELSE Exit(0) /\ bodyClosed' = TRUE
       ELSE /\ steps' = Append(steps, "response")
            /\ Exit(1)
            /\ UNCHANGED <<resp, fs, err, outPath, crashed, handle, bodyClosed>>
    /\ UNCHANGED <<args, from, file, archiveType, requests>>

Next ==
    \/ ParseArgs
    \/ ShowVersion
    \/ CheckRequired
    \/ EvalFrom
    \/ EvalFile
    \/ Classify
    \/ MakeDirs
    \/ SetupClient
    \/ Get
    \/ HandleResponse

Spec == Init /\ [][Next]_vars

(***************************************************************************)
(* Runs over a range of literal source URLs, to exercise the classifier.   *)
(***************************************************************************)
UrlStems == {<<>>, <<"a">>, <<"a", ".", "z", "i", "p">>, <<"x", ".", "t", "g", "z">>}
UrlEndings ==
    {<<".", "t", "a", "r", ".", "g", "z">>,
     <<".", "T", "A", "R", ".", "G", "Z">>,
     <<".", "T", "a", "r", ".", "g", "Z">>,
     <<".", "t", "g", "z">>,
     <<".", "T", "G", "Z">>,
     <<".", "t", "G", "z">>,
     <<".", "z", "i", "p">>,
     <<".", "Z", "I", "P">>,
     <<".", "z", "I", "p">>,
     <<"t", "g", "z">>,
     <<"z", "i", "p">>,
     <<".", "g", "z">>,
     <<".", "t", "a", "r">>,
     <<".", "t", "a", "r", "g", "z">>,
     <<".", "z", "i", "p", "x">>,
     <<".", "t", "g", "z", "/">>,
     <<".", "t", "x", "t">>,
     <<"/">>,
     <<".", "z", "U+0130", "p">>,
     <<".", "Z", "U+0130", "P">>,
     <<".", "z", "i", "p", "U+00C9">>,
     <<".", "t", "g", "U+212A">>}
ClassifierUrls == {stem \o ending : stem \in UrlStems, ending \in UrlEndings}

InitClassify ==
    /\ args \in [From : ClassifierUrls, File : {S_app}, Var : {NoVars},
                 To : {S_to}, Mkdirs : BOOLEAN, Version : {FALSE}]
    /\ fs = [dirs |-> {S_root, S_to}, files |-> <<>>]
    /\ InitRun

SpecClassify == InitClassify /\ [][Next]_vars

(***************************************************************************)
(* Vocabulary of the properties.                                           *)
(***************************************************************************)
Took(step) == \E i \in 1..Len(steps) : steps[i] = step

\* position of a step in the run, 0 when it was not taken
Pos(step) ==
    IF Took(step) THEN CHOOSE i \in 1..Len(steps) : steps[i] = step ELSE 0

\* the body was handed to processArchive
Processed == Took("process")

\* the envelope or container structure of the body is not what the
\* extractor of kind t reads
Malformed(body, t) ==
    \/ body.tail = "err"
    \/ t = TarGz /\ body.format # "targz"
    \/ t = Zip /\ body.format # "zip"

WellFormed(body, t) ==
    /\ body.tail = "eof"
    /\ \/ t = TarGz /\ body.format = "targz"
       \/ t = Zip /\ body.format = "zip"

NoEntryNamed(body, name) ==
    \A i \in 1..Len(body.entries) : body.entries[i].name # name

\* C1: a body whose gzip envelope or tar/zip container structure is
\* malformed makes extraction return a format error, without a crash,
\* without a not-found error and before any entry is reported found
\* (no destination file is opened).
C1_MalformedGivesFormatError ==
    (Processed /\ Malformed(resp.body, archiveType))
        => /\ ~crashed
           /\ err \in FormatErrors
           /\ handle = "none"

\* C2: extraction from a well-formed archive of the requested kind in which
\* no entry is named as requested returns the not-found error, does not
\* crash, does not report success and leaves the file system as it was.
C2_AbsentEntryIsNotFound ==
    [][(/\ pc = "response"
        /\ Processed'
        /\ WellFormed(resp'.body, archiveType)
        /\ NoEntryNamed(resp'.body, file))
          => /\ err' = "notfound"
             /\ ~crashed'
             /\ exit' = 1
             /\ outPath' = <<>>
             /\ handle' = "none"
             /\ fs' = fs]_vars

C2_Witness ==
    /\ Processed
    /\ WellFormed(resp.body, archiveType)
    /\ Len(resp.body.entries) = 2
    /\ NoEntryNamed(resp.body, file)
    /\ file = S_app
    /\ \E i \in 1..Len(resp.body.entries) : resp.body.entries[i].name = S_binapp
    /\ OutApp \in DOMAIN fs.files
    /\ err = "notfound"

\* C3: after a successful extraction of entry N the file at
\* join(destinationDir, baseName(N)) holds exactly the bytes of an entry
\* named N, whatever was at that path before.
C3_FileHoldsExactlyTheEntry ==
    (Processed /\ ~crashed /\ err = "none")
        => LET path == Join(args.To, Base(file))
           IN  /\ path \in DOMAIN fs.files
               /\ \E i \in 1..Len(resp.body.entries) :
                     /\ resp.body.entries[i].name = file
                     /\ fs.files[path].content = resp.body.entries[i].content

\* C4: extracting entry N of a tar-gzip archive creates the file with
\* exactly the permission mode the archive records for an entry named N.
C4_CreatedWithArchiveMode ==
    [][(/\ pc = "response"
        /\ Processed'
        /\ archiveType = TarGz
        /\ ~crashed'
        /\ err' = "none"
        /\ Join(args.To, Base(file)) \notin DOMAIN fs.files)
          => \E i \in 1..Len(resp'.body.entries) :
                /\ resp'.body.entries[i].name = file
                /\ fs'.files[Join(args.To, Base(file))].mode
                      = resp'.body.entries[i].mode]_vars

\* C5: the response is fatal exactly when its status is outside 200..299:
\* a status outside the range never reaches the extraction engine and the
\* run exits non-zero, a status inside it has its body handed to the engine.
C5_FatalExactlyOutside2xx ==
    (pc = "done" /\ Took("response"))
        => /\ (resp.status \in 200..299) <=> Processed
           /\ (resp.status \notin 200..299) => exit # 0

\* the variable names a template refers to
FieldNames(t) ==
    LET Of(toks) ==
            {toks[i].val :
                i \in {j \in 1..Len(toks) :
                          /\ toks[j].typ = "field"
                          /\ toks[j - 1].typ
                                 \notin {"field", "var", "rparen", "ident"}}}
    IN  Of(Lex(t).toks)

\* C6: a template that refers to a variable that is not in the VariableSet
\* fails the substitution: the run stops before the classification and
\* before any request.
C6_UndefinedVariableFails ==
    (\/ Took("evalFrom") /\ FieldNames(args.From) \ DOMAIN args.Var # {}
     \/ Took("evalFile") /\ FieldNames(args.File) \ DOMAIN args.Var # {})
        => /\ pc = "done"
           /\ exit # 0
           /\ ~Took("classify")
           /\ requests = 0

HostOS == <<"l", "i", "n", "u", "x">>
HostArch == <<"a", "m", "d", "6", "4">>
ImplicitVars == (S_os :> HostOS) @@ (S_arch :> HostArch)

\* C7: both templates are resolved against the --var bindings laid over the
\* implicit variables os and arch, so that without a user binding {{.os}}
\* and {{.arch}} resolve to the host's identifiers.
C7_ImplicitOsArch ==
    Took("classify")
        => /\ from = evaluateFromTemplate(args.From, args.Var @@ ImplicitVars).val
           /\ file = evaluateFromTemplate(args.File, args.Var @@ ImplicitVars).val

\* The letters that differ only in case: the upper and the lower case
\* letter of ASCII, and a letter outside ASCII with the ASCII letter that
\* is its lower case in Unicode (the capital I with a dot above with i, the
\* Kelvin sign with k).  A letter such as U+00C9, whose lower case is no
\* ASCII letter, is the case of none.
CasePairs ==
    {<<Upper[i], Lower[i]>> : i \in 1..26}
    \cup {<<"U+0130", "i">>, <<"U+212A", "k">>}

\* c is d, d being in lower case, up to case
SameLetter(c, d) == c = d \/ <<c, d>> \in CasePairs

EndsWithAnyCase(url, ending) ==
    /\ Len(url) >= Len(ending)
    /\ \A i \in 1..Len(ending) :
          SameLetter(url[Len(url) - Len(ending) + i], ending[i])

\* C8: classification returns TarGzip for a URL ending, in any case, in
\* .tar.gz or .tgz, Zip for one ending in .zip, and an unsupported-format
\* error, which ends the run, for every other URL.  A letter is taken in
\* any case by its lower case in Unicode.
C8_ClassifiedBySuffix ==
    Took("classify")
        => IF \/ EndsWithAnyCase(from, <<".", "t", "a", "r", ".", "g", "z">>)
              \/ EndsWithAnyCase(from, <<".", "t", "g", "z">>)
           THEN archiveType = TarGz /\ (pc = "done" => Took("mkdirs"))
           ELSE IF EndsWithAnyCase(from, <<".", "z", "i", "p">>)
           THEN archiveType = Zip /\ (pc = "done" => Took("mkdirs"))
           ELSE /\ archiveType \notin {TarGz, Zip}
                /\ pc = "done" /\ exit = 1 /\ ~Took("mkdirs")

\* a URL in mixed case was classified as Zip, and so was one whose suffix
\* holds the capital I with a dot above
C8_Witness ==
    /\ Took("classify")
    /\ archiveType = Zip
    /\ from \in {<<"a", ".", "z", "I", "p">>, <<"a", ".", "z", "U+0130", "p">>}

\* C9: the GET (the call of client.Get, within which every request of the
\* run is sent) is issued only after --from and --file were found
\* non-empty, both templates were resolved and the URL was classified as a
\* supported kind, in this order; a run in which one of these fails issues
\* no request.
C9_RequestOnlyAfterChecks ==
    /\ requests > 0
          => /\ 0 < Pos("required")
             /\ Pos("required") < Pos("evalFrom")
             /\ Pos("evalFrom") < Pos("evalFile")
             /\ Pos("evalFile") < Pos("classify")
             /\ Pos("classify") < Pos("get")
             /\ args.From # <<>> /\ args.File # <<>>
             /\ ~evaluateFromTemplate(args.From, args.Var).err
             /\ ~evaluateFromTemplate(args.File, args.Var).err
             /\ archiveType \in {TarGz, Zip}
    /\ Took("get") <=> requests > 0

C9_Witness ==
    /\ requests = 1
    /\ pc = "response"
    /\ args.From = T_vzip
    /\ archiveType = Zip

\* the command line was parsed: main got past flagsfiller.Parse
Parsed == Took("version")

\* the exit status the outcome of a finished run calls for
ExpectedExit ==
    IF args.Version THEN 0
    ELSE IF args.From = <<>> \/ args.File = <<>> THEN 2
    ELSE IF Processed /\ ~crashed /\ err = "none" THEN 0
    ELSE 1

\* C10: of a run whose command line was parsed (flag parsing is an external
\* collaborator) the exit status is 0 exactly when the entry was written or
\* --version was given (and then nothing is requested or written), 2 when
\* --from or --file is missing, and 1 for every other fatal error.
C10_ExitStatusByOutcome ==
    (pc = "done" /\ Parsed)
        => /\ exit = ExpectedExit
           /\ args.Version => requests = 0 /\ ~Processed /\ handle = "none"

\* C11: a run that obtained an HTTP response has closed the response body
\* when the process has ended, whatever the exit path, and a destination
\* file handle that was opened has been closed.
C11_BodyAndFileClosedOnExit ==
    (pc = "done" /\ Took("response"))
        => /\ bodyClosed
           /\ handle # "open"

\* index of the first entry, in archive order, named exactly name; 0 if none
FirstMatch(body, name) ==
    IF NoEntryNamed(body, name) THEN 0
    ELSE CHOOSE i \in 1..Len(body.entries) :
            /\ body.entries[i].name = name
            /\ \A j \in 1..(i - 1) : body.entries[j].name # name

\* the extractor of kind t gets to read the entries of the body
Readable(body, t) ==
    \/ t = TarGz /\ body.format = "targz"
    \/ t = Zip /\ body.format = "zip" /\ body.tail = "eof"

\* the archive that ends cleanly after its k-th entry
UpTo(body, k) ==
    [body EXCEPT !.entries = SubSeq(@, 1, k), !.tail = "eof"]

\* the paths whose file differs between two file systems
ChangedFiles(old, new) ==
    {p \in DOMAIN old.files \cup DOMAIN new.files :
        \/ p \notin DOMAIN old.files
        \/ p \notin DOMAIN new.files
        \/ old.files[p] # new.files[p]}

\* C12: the scan stops at the first entry, in archive order, whose name
\* equals the requested path exactly: what is written starts with that
\* entry's content, the outcome is the one of the archive cut off after that
\* entry (no later entry is examined or written), at most one file is
\* written, and without an entry of exactly that name nothing is extracted.
C12_FirstExactMatchWins ==
    [][(pc = "response" /\ Processed')
          => LET body == resp'.body
                 k    == FirstMatch(body, file)
                 path == Join(args.To, Base(file))
             IN  /\ Cardinality(ChangedFiles(fs, fs')) <= 1
                 /\ (err' = "none" /\ ~crashed') => k > 0
                 /\ k = 0 => fs' = fs /\ outPath' = <<>>
                 /\ (Readable(body, archiveType) /\ k > 0)
                       => /\ ~crashed'
                          /\ err' \in {"none", "zipopen", "create", "copy"}
                          /\ ChangedFiles(fs, fs') \subseteq {path}
                          /\ \E fault \in Faults :
                                \E r \in {processArchive(archiveType, UpTo(body, k),
                                             file, args.To, fs, Umask,
                                             fault.n, fault.endErr,
                                             fault.openOk)} :
                                   /\ r.fs = fs'
                                   /\ r.err = err'
                                   /\ r.outPath = outPath'
                          /\ err' = "none"
                                => /\ outPath' = path
                                   /\ path \in DOMAIN fs'.files
                                   /\ SubSeq(fs'.files[path].content, 1,
                                             Len(body.entries[k].content))
                                         = body.entries[k].content]_vars

C12_Witness ==
    /\ Processed
    /\ archiveType = Zip
    /\ err = "none"
    /\ Len(resp.body.entries) = 2
    /\ resp.body.entries[1].name = file
    /\ resp.body.entries[2].name = file
    /\ resp.body.entries[1].content = <<1>>
    /\ resp.body.entries[2].content = <<2, 2>>
    /\ fs.files[outPath].content = <<1>>
====
